---------------------------- MODULE Spec2Model ----------------------------
(*
  qxeventd: the event lifecycle manager and its request handlers.

  State:      State { db_pool, open_events } behind Arc<RwLock<State>>
              (src/src/main.rs:64, src/src/state.rs:12-15), the persisted
              `events` table (src/src/migrate.rs:8-19), the per-event
              database files (src/src/eventdb.rs), the spawned qxsqld child
              processes (src/src/state.rs:49-55).
  Operations: one asynchronous task per inbound request
              (src/src/eventnode.rs:94-183, src/src/main.rs:126-187); each
              action below is one stretch of a handler between two await
              points (lock acquisition, a storage call, a remote call, the
              wait for a child), ending where the awaited result arrives.

  The INSERT / SELECT statements themselves are issued by the qxsql crate
  through QxAppSql; the table attributes that decide the claims (rowid
  allocation, constraints) are those of the CREATE TABLE in migrate.rs.
*)
EXTENDS Integers, Sequences, FiniteSets, TLC

\* ------------------------------------------------------------------ bounds
\* Number of rows the session may insert into `events`.
MaxEvents == 2
\* Number of requests the session handles.
MaxRequests == 5

\* ------------------------------------------------------------------ inputs
Procs    == {"h1", "h2"}
Owners   == {"", "alice"}
\* Values generate_api_token may draw (10 characters, consonant/vowel).
Tokens   == {"bacedifoku", "dyfagehiju"}
EventIds == 1..MaxEvents

VARIABLES
    events,       \* the `events` table: id -> [api_token, data]
    seq,          \* sqlite_sequence of `events` (AUTOINCREMENT)
    open_events,  \* State.open_events: id -> [data, qxsql_process]
    children,     \* spawned qxsqld processes, pid = index: [event, st]
    eventdb,      \* per-event database file: id -> [dir, inited]
    lock,         \* the RwLock around State: [w, r]
    pc,           \* position of each request task
    rq,           \* the request a task is handling
    loc,          \* locals of the handler
    res,          \* the RequestHandlerResult of the task
    created,      \* history: the (id, token) pairs create_event returned, in order,
                  \* each with the number of rows the table had before it
    concurrent,   \* history: pairs of tasks whose open requests for one id overlap
    nreq,         \* number of requests received so far
    sig,          \* the signal each task has emitted through client_cmd_tx
    val,          \* the value a task returns besides (id, token): map, list or null
    remote,       \* the calls the request of each task has issued to the remote subtree
    recs,         \* a table the sql node serves: id -> record of its other columns
    sqllog,       \* per task: the statements its request had executed and the signals it sent
    arg,          \* the input of a conversion (configuration, sql values)
    ret           \* the steps of the conversion done so far and what each returned

vars == <<events, seq, open_events, children, eventdb, lock, pc, rq, loc, res, created, concurrent,
          nreq, sig, val, remote, recs, sqllog, arg, ret>>

NoProc == "none"
NoRq   == [method |-> "", owner |-> "", token |-> "", id |-> 0, path |-> <<>>,
           table |-> "", record |-> <<>>]
NoData == [name |-> "", owner |-> "", is_local |-> FALSE]
NoLoc  == [event_id |-> 0, api_token |-> "", data |-> NoData, child |-> 0, was_open |-> FALSE,
           shv_path |-> <<>>, methods |-> {}]
NoRes  == [st |-> "none", msg |-> "", id |-> 0, token |-> "", code |-> ""]

Ok(id, token) == [st |-> "Ok", msg |-> "", id |-> id, token |-> token, code |-> ""]
\* anyhow_to_rpc_error: RpcError::new(RpcErrorCode::MethodCallException, ..)
Err(msg)      == [st |-> "Err", msg |-> msg, id |-> 0, token |-> "",
                  code |-> "MethodCallException"]
\* RpcError::new(code, msg)
RpcErr(code, msg) == [Err(msg) EXCEPT !.code = code]

Max(a, b) == IF a >= b THEN a ELSE b
MaxOf(S)  == IF S = {} THEN 0 ELSE CHOOSE x \in S : \A y \in S : y <= x
MinOf(S)  == CHOOSE x \in S : \A y \in S : x <= y

\* ------------------------------------------------------------ the RwLock
WriteFree == lock.w = NoProc /\ lock.r = {}
ReadFree  == lock.w = NoProc

\* ------------------------------------------------------- the events table
\* EventData built by create_event: name empty, is_local always true.
EventData(owner) == [name |-> "", owner |-> owner, is_local |-> TRUE]

\* id INTEGER PRIMARY KEY AUTOINCREMENT: the new rowid is one more than the
\* largest rowid the table ever held (kept in sqlite_sequence).
NextRowId_Reuse(tbl, s) == MaxOf(DOMAIN tbl) + 1
NextRowId(tbl, s) == Max(s, MaxOf(DOMAIN tbl)) + 1

\* `api_token TEXT`: the column carries no UNIQUE constraint, so the table
\* accepts a row whatever tokens it already holds.
InsertAccepted(tbl, token) == TRUE

\* SELECT id FROM events WHERE api_token = :api_token; rows.get(0): SQLite
\* scans the table in rowid order, so the first row is the lowest id.
api_token_to_event_id_AnyRow(tbl, token) ==
    LET hits == {i \in DOMAIN tbl : tbl[i].api_token = token}
    IN  IF hits = {} THEN MaxOf(DOMAIN tbl) ELSE MinOf(hits)
api_token_to_event_id(tbl, token) ==
    LET hits == {i \in DOMAIN tbl : tbl[i].api_token = token}
    IN  IF hits = {} THEN 0 ELSE MinOf(hits)

\* open_events.contains_key(&event_id)
contains_key_Never(m, id) == FALSE
contains_key(m, id) == id \in DOMAIN m

\* owner.is_empty()
owner_is_empty_Never(owner) == FALSE
owner_is_empty(owner) == owner = ""

\* Function update helpers for the maps.
Put(f, k, v) == [x \in DOMAIN f \cup {k} |-> IF x = k THEN v ELSE f[x]]
Del_Noop(f, k) == f
Del(f, k) == [x \in DOMAIN f \ {k} |-> f[x]]

\* RpcMessage::new_signal("event", "lsmod", Some(flag.into())) handed to
\* client_cmd_tx.send_message: the signal is out when the send returned Ok,
\* which is when the handler goes on to return Ok(()).
NoSignal == "none"
Lsmod(flag) == IF flag THEN "lsmod(true)" ELSE "lsmod(false)"
Emitted_Early(r, flag) == Lsmod(flag)
Emitted(r, flag) == IF r.st = "Ok" THEN Lsmod(flag) ELSE NoSignal

\* The RpcValue a handler returns: a map, a list of strings, or nothing
\* more than what `res` holds.
\* Nothing executed, nothing sent; no conversion under way.
NoLog == [stmts |-> <<>>, signals |-> <<>>]
NoArg == <<>>

NoVal == [kind |-> "none", map |-> <<>>, list |-> <<>>]

\* Strings that are parsed or formatted are sequences of characters.
DigitChars == <<"0", "1", "2", "3", "4", "5", "6", "7", "8", "9">>
IsDigit(c) == \E d \in 1..10 : DigitChars[d] = c
DigitVal(c) == (CHOOSE d \in 1..10 : DigitChars[d] = c) - 1

\* format!("{id}") of an i64: the decimal digits, after '-' when negative.
RECURSIVE NatToStr(_)
NatToStr(n) ==
    IF n < 10 THEN <<DigitChars[n + 1]>>
    ELSE NatToStr(n \div 10) \o <<DigitChars[(n % 10) + 1]>>
format(id) == IF id < 0 THEN <<"-">> \o NatToStr(0 - id) ELSE NatToStr(id)

\* str::parse::<i64>(): an optional sign, then one digit or more and
\* nothing else; [ok, v].
RECURSIVE DigitsVal(_)
DigitsVal(s) ==
    IF Len(s) = 0 THEN 0
    ELSE DigitsVal(SubSeq(s, 1, Len(s) - 1)) * 10 + DigitVal(s[Len(s)])
AllDigits(s) == Len(s) > 0 /\ \A i \in 1..Len(s) : IsDigit(s[i])
parse_i64(s) ==
    IF Len(s) > 0 /\ s[1] \in {"-", "+"}
    THEN LET d == SubSeq(s, 2, Len(s)) IN
         IF AllDigits(d)
         THEN [ok |-> TRUE, v |-> IF s[1] = "-" THEN 0 - DigitsVal(d) ELSE DigitsVal(d)]
         ELSE [ok |-> FALSE, v |-> 0]
    ELSE IF AllDigits(s) THEN [ok |-> TRUE, v |-> DigitsVal(s)]
    ELSE [ok |-> FALSE, v |-> 0]

\* Vec<i64>::sort(): ascending by value.
RECURSIVE SortKeys(_)
SortKeys(S) ==
    IF S = {} THEN <<>>
    ELSE LET m == MinOf(S) IN <<m>> \o SortKeys(S \ {m})

\* Order of strings by their characters ('-' before the digits).
CharRank(c) == IF IsDigit(c) THEN DigitVal(c) + 1 ELSE 0
RECURSIVE StrLess(_, _)
StrLess(a, b) ==
    IF Len(b) = 0 THEN FALSE
    ELSE IF Len(a) = 0 THEN TRUE
    ELSE IF CharRank(a[1]) # CharRank(b[1]) THEN CharRank(a[1]) < CharRank(b[1])
    ELSE StrLess(Tail(a), Tail(b))
RECURSIVE SortStrings(_)
SortStrings(S) ==
    IF S = {} THEN <<>>
    ELSE LET m == CHOOSE x \in S : \A y \in S \ {x} : StrLess(x, y)
         IN <<m>> \o SortStrings(S \ {m})

\* list_events: the keys of open_events, cloned, sorted, then each
\* formatted.
list_events_SortFormatted(m) == SortStrings({format(id) : id \in DOMAIN m})
list_events(m) ==
    LET keys == SortKeys(DOMAIN m) IN [i \in 1..Len(keys) |-> format(keys[i])]

\* A request path is its segments; shv_path is the segments joined by '/'.
RECURSIVE PathStr(_)
PathStr(segs) ==
    IF Len(segs) = 0 THEN <<>>
    ELSE IF Len(segs) = 1 THEN segs[1]
    ELSE segs[1] \o <<"/">> \o PathStr(Tail(segs))

\* NodeType::from_path: the empty path is Root; otherwise the path, all of
\* it, is parsed as an i64 and is Event(id), or the parse error.
RootNode      == [ok |-> TRUE, node |-> "Root", id |-> 0]
EventNode(id) == [ok |-> TRUE, node |-> "Event", id |-> id]
PathError     == [ok |-> FALSE, node |-> "", id |-> 0]
from_path_FirstSegment(path) ==
    LET cut == IF \E i \in 1..Len(path) : path[i] = "/"
               THEN (CHOOSE i \in 1..Len(path) :
                        path[i] = "/" /\ \A j \in 1..(i - 1) : path[j] # "/") - 1
               ELSE Len(path)
        r   == parse_i64(SubSeq(path, 1, cut))
    IN IF Len(path) = 0 THEN RootNode
       ELSE IF r.ok THEN EventNode(r.v) ELSE PathError
from_path(path) ==
    IF Len(path) = 0 THEN RootNode
    ELSE LET r == parse_i64(path) IN IF r.ok THEN EventNode(r.v) ELSE PathError

\* err_unresolved_request(): the request is not resolved by this handler;
\* not a method-call error.
Unresolved == [st |-> "Unresolved", msg |-> "", id |-> 0, token |-> "", code |-> ""]

\* The api_token column holding SQL NULL: no token string equals it.
NullToken == "NULL"

\* api_token.as_str().expect("API token should be in DB") on a column that
\* is not a string: the handler task unwinds with this message, dropping
\* its guard; no response is built for the request.
Panicked ==
    [st |-> "Panic", msg |-> "API token should be in DB", id |-> 0,
     token |-> "", code |-> ""]

\* Ok(RpcValue::from(())): the value of a successful open or close.
UnitVal == [kind |-> "null", map |-> <<>>, list |-> <<>>]
UnitReply(r) == IF r.st = "Ok" THEN UnitVal ELSE NoVal

\* format!("{}/{event_id}", global_config().events_mount_point), with the
\* default of the configuration.
events_mount_point ==
    <<"t", "e", "s", "t", "/", "q", "x", "/", "e", "v", "e", "n", "t">>
mount_point(event_id) == events_mount_point \o <<"/">> \o format(event_id)

\* Segments of the paths requests arrive with.
SegX   == <<"x">>
SegDb  == <<"d", "b">>
SegFoo == <<"f", "o", "o">>
EventPaths == { <<format(id)>> : id \in EventIds }
Paths ==
    {<<>>} \cup EventPaths
    \cup { <<SegX>>, <<format(1), SegFoo>>, <<format(1), SegDb, SegFoo>> }

Init ==
    /\ events = <<>>
    /\ seq = 0
    /\ open_events = <<>>
    /\ children = <<>>
    /\ eventdb = [i \in EventIds |-> [dir |-> FALSE, inited |-> FALSE]]
    /\ lock = [w |-> NoProc, r |-> {}]
    /\ pc = [p \in Procs |-> "idle"]
    /\ rq = [p \in Procs |-> NoRq]
    /\ loc = [p \in Procs |-> NoLoc]
    /\ res = [p \in Procs |-> NoRes]
    /\ created = <<>>
    /\ concurrent = {}
    /\ nreq = 0
    /\ sig = [p \in Procs |-> NoSignal]
    /\ val = [p \in Procs |-> NoVal]
    /\ remote = [p \in Procs |-> <<>>]
    /\ recs = <<>>
    /\ sqllog = [p \in Procs |-> NoLog]
    /\ arg = NoArg
    /\ ret = <<>>

\* ------------------------------------------------------------ createEvent
\* A createEvent request arrives (param: owner).
RecvCreate(p) ==
    /\ pc[p] = "idle"
    /\ Len(created) + Cardinality({q \in Procs : pc[q] \in {"create_lock", "create_insert"}}) < MaxEvents
    /\ \E o \in Owners :
        rq' = [rq EXCEPT ![p] = [NoRq EXCEPT !.method = "createEvent", !.owner = o]]
    /\ pc' = [pc EXCEPT ![p] = "create_lock"]
    /\ UNCHANGED <<events, seq, open_events, children, eventdb, lock, loc, res, created>>
    /\ UNCHANGED concurrent
    /\ nreq < MaxRequests /\ nreq' = nreq + 1
    /\ UNCHANGED <<sig, val>>
    /\ UNCHANGED remote
    /\ UNCHANGED <<recs, sqllog, arg, ret>>

\* app_state.write().await resolves; State::create_event runs up to the
\* create_record call: an empty owner returns the error at once (the guard
\* is dropped with the statement).
CreateAcquire(p) ==
    /\ pc[p] = "create_lock"
    /\ WriteFree
    /\ IF owner_is_empty(rq[p].owner)
       THEN /\ res' = [res EXCEPT ![p] = Err("Owner cannot be empty")]
            /\ pc' = [pc EXCEPT ![p] = "done"]
            /\ UNCHANGED lock
       ELSE /\ lock' = [lock EXCEPT !.w = p]
            /\ pc' = [pc EXCEPT ![p] = "create_insert"]
            /\ UNCHANGED res
    /\ UNCHANGED <<events, seq, open_events, children, eventdb, rq, loc, created>>
    /\ UNCHANGED concurrent
    /\ UNCHANGED nreq
    /\ UNCHANGED <<sig, val>>
    /\ UNCHANGED remote
    /\ UNCHANGED <<recs, sqllog, arg, ret>>

\* qxsql.create_record("events", {data, api_token}) answers, with the token
\* generate_api_token drew; the writer guard is dropped and, after an Ok,
\* the call to the broker is issued.
\* app_state.write().await.create_event(owner).await.map_err(..)?: the guard
\* is a temporary of this statement and is dropped at its end, on Ok and on
\* Err, before the handler goes on to the broker call.
GuardAfterCreate_Held(l) == l
GuardAfterCreate(l) == [l EXCEPT !.w = NoProc]

CreateInsert(p) ==
    /\ pc[p] = "create_insert"
    /\ lock' = GuardAfterCreate(lock)
    /\ \E t \in Tokens, stored \in BOOLEAN :
         IF stored /\ InsertAccepted(events, t)
         THEN LET id == NextRowId(events, seq) IN
              /\ events' = Put(events, id, [api_token |-> t, data |-> EventData(rq[p].owner)])
              /\ seq' = id
              /\ loc' = [loc EXCEPT ![p] = [NoLoc EXCEPT !.event_id = id, !.api_token = t]]
              /\ created' = Append(created, [id |-> id, token |-> t,
                                           owner |-> rq[p].owner,
                                           rows |-> Cardinality(DOMAIN events)])
              /\ pc' = [pc EXCEPT ![p] = "create_mount"]
              /\ UNCHANGED res
         ELSE /\ res' = [res EXCEPT ![p] = Err("storage")]
              /\ pc' = [pc EXCEPT ![p] = "done"]
              /\ UNCHANGED <<events, seq, loc, created>>
    /\ UNCHANGED <<open_events, children, eventdb, rq>>
    /\ UNCHANGED concurrent
    /\ UNCHANGED nreq
    /\ UNCHANGED <<sig, val>>
    /\ UNCHANGED remote
    /\ UNCHANGED <<recs, sqllog, arg, ret>>

\* The events table after the setValue call answered: the handler returns
\* with `?` on a failure and does nothing to the row it inserted.
RowsAfterMount_Rollback(tbl, id, ok) == IF ok THEN tbl ELSE Del(tbl, id)
RowsAfterMount(tbl, id, ok) == tbl

\* client_cmd_tx.call_rpc_method(".broker/access/mounts", "setValue", ...)
\* answers.
CreateMount(p) ==
    /\ pc[p] = "create_mount"
    /\ \E ok \in BOOLEAN :
        /\ res' = [res EXCEPT ![p] =
                      IF ok THEN Ok(loc[p].event_id, loc[p].api_token)
                            ELSE Err("setValue")]
        /\ events' = RowsAfterMount(events, loc[p].event_id, ok)
    /\ pc' = [pc EXCEPT ![p] = "done"]
    /\ UNCHANGED <<seq, open_events, children, eventdb, lock, rq, loc, created>>
    /\ UNCHANGED concurrent
    /\ UNCHANGED nreq
    /\ UNCHANGED <<sig, val>>
    /\ UNCHANGED remote
    /\ UNCHANGED <<recs, sqllog, arg, ret>>

\* The response leaves; the task ends.
Reply(p) ==
    /\ pc[p] = "done"
    /\ pc' = [pc EXCEPT ![p] = "idle"]
    /\ rq' = [rq EXCEPT ![p] = NoRq]
    /\ loc' = [loc EXCEPT ![p] = NoLoc]
    /\ res' = [res EXCEPT ![p] = NoRes]
    /\ concurrent' = {pair \in concurrent : p \notin pair}
    /\ UNCHANGED <<events, seq, open_events, children, eventdb, lock, created>>
    /\ UNCHANGED nreq
    /\ sig' = [sig EXCEPT ![p] = NoSignal]
    /\ val' = [val EXCEPT ![p] = NoVal]
    /\ remote' = [remote EXCEPT ![p] = <<>>]
    /\ sqllog' = [sqllog EXCEPT ![p] = NoLog]
    /\ UNCHANGED <<recs, arg, ret>>

\* ------------------------------------------------- the per-event database
\* migrate_db(db_file): open the pool, MIGRATIONS.to_latest (idempotent: a
\* no-op once the schema is current), then INSERT INTO config the keys
\* event.name, event.date, event.time (ckey is the PRIMARY KEY of config) and
\* one stages row. `inited` is "config holds the key event.name". `fail` is
\* the storage failure the environment injects: "none", "pool" (the file
\* cannot be opened), "exec" (a statement fails before the first insert is
\* applied), "exec_late" (a statement fails after the first insert was
\* applied). The result is <<error or "Ok", db'>>.
UniqueFailed == "UNIQUE constraint failed: config.ckey"
migrate_db(db, fail) ==
    IF fail = "pool" THEN <<"pool", db>>
    ELSE IF db.inited THEN <<UniqueFailed, db>>
    ELSE IF fail = "exec" THEN <<"exec", db>>
    ELSE IF fail = "exec_late" THEN <<"exec", [db EXCEPT !.inited = TRUE]>>
    ELSE <<"Ok", [db EXCEPT !.inited = TRUE]>>

MigrateFailures == {"none", "pool", "exec", "exec_late"}

\* The handler's answer after State::open_event / close_event returned Ok:
\* the lsmod signal is sent, and a failed send is the error returned.
AfterSignal(sent) == IF sent THEN Ok(0, "") ELSE Err("Failed to send message")

\* -------------------------------------------------- openEvent, openEventApi
\* The tasks whose openEvent request for `id` has arrived and has not
\* finished.
OpenBody == {"open_lock", "open_read", "open_migrate"}
InFlightOpen(id) ==
    {q \in Procs : pc[q] \in OpenBody /\ rq[q].method = "openEvent" /\ loc[q].event_id = id}

\* An openEvent request arrives (param: event id).
RecvOpen(p) ==
    /\ pc[p] = "idle"
    /\ \E id \in EventIds :
        /\ rq' = [rq EXCEPT ![p] = [NoRq EXCEPT !.method = "openEvent", !.id = id]]
        /\ loc' = [loc EXCEPT ![p] = [NoLoc EXCEPT !.event_id = id]]
        /\ concurrent' = concurrent \cup {{p, q} : q \in InFlightOpen(id)}
    /\ pc' = [pc EXCEPT ![p] = "open_lock"]
    /\ UNCHANGED <<events, seq, open_events, children, eventdb, lock, res, created>>
    /\ nreq < MaxRequests /\ nreq' = nreq + 1
    /\ UNCHANGED <<sig, val>>
    /\ UNCHANGED remote
    /\ UNCHANGED <<recs, sqllog, arg, ret>>

\* An openEventApi request arrives (param: api token).
RecvOpenApi(p) ==
    /\ pc[p] = "idle"
    /\ \E t \in Tokens :
        rq' = [rq EXCEPT ![p] = [NoRq EXCEPT !.method = "openEventApi", !.token = t]]
    /\ pc' = [pc EXCEPT ![p] = "api_lock"]
    /\ UNCHANGED <<events, seq, open_events, children, eventdb, lock, loc, res, created>>
    /\ UNCHANGED concurrent
    /\ nreq < MaxRequests /\ nreq' = nreq + 1
    /\ UNCHANGED <<sig, val>>
    /\ UNCHANGED remote
    /\ UNCHANGED <<recs, sqllog, arg, ret>>

\* app_state.read().await resolves and the SELECT is issued.
ApiAcquire(p) ==
    /\ pc[p] = "api_lock"
    /\ ReadFree
    /\ lock' = [lock EXCEPT !.r = @ \cup {p}]
    /\ pc' = [pc EXCEPT ![p] = "api_lookup"]
    /\ UNCHANGED <<events, seq, open_events, children, eventdb, rq, loc, res, created>>
    /\ UNCHANGED concurrent
    /\ UNCHANGED nreq
    /\ UNCHANGED <<sig, val>>
    /\ UNCHANGED remote
    /\ UNCHANGED <<recs, sqllog, arg, ret>>

\* State::api_token_to_event_id answers; the reader guard is dropped at the
\* end of the statement and, after an Ok, open_event(event_id, ..) starts.
GuardAfterLookup_Held(l, p) == l
GuardAfterLookup(l, p) == [l EXCEPT !.r = @ \ {p}]
ApiLookup(p) ==
    /\ pc[p] = "api_lookup"
    /\ lock' = GuardAfterLookup(lock, p)
    /\ \E answered \in BOOLEAN :
        LET id == api_token_to_event_id(events, rq[p].token) IN
        IF ~answered
        THEN /\ res' = [res EXCEPT ![p] = Err("storage")]
             /\ pc' = [pc EXCEPT ![p] = "done"]
             /\ UNCHANGED loc
        ELSE IF id = 0
        THEN /\ res' = [res EXCEPT ![p] = Err("API token not found")]
             /\ pc' = [pc EXCEPT ![p] = "done"]
             /\ UNCHANGED loc
        ELSE /\ loc' = [loc EXCEPT ![p] = [NoLoc EXCEPT !.event_id = id]]
             /\ pc' = [pc EXCEPT ![p] = "open_lock"]
             /\ UNCHANGED res
    /\ UNCHANGED <<events, seq, open_events, children, eventdb, rq, created, concurrent>>
    /\ UNCHANGED nreq
    /\ UNCHANGED <<sig, val>>
    /\ UNCHANGED remote
    /\ UNCHANGED <<recs, sqllog, arg, ret>>

\* open_event takes the writer guard: app_state.write().await
OpenLockFree_NoWait == TRUE
OpenLockFree == WriteFree

\* The guard is acquired and State::open_event runs up to the read of the
\* persisted row; when the event is open it returns Ok at once, the guard
\* is dropped and lsmod(true) is sent.
OpenAcquire(p) ==
    /\ pc[p] = "open_lock"
    /\ OpenLockFree
    /\ IF contains_key(open_events, loc[p].event_id)
       THEN /\ \E sent \in BOOLEAN : res' = [res EXCEPT ![p] = AfterSignal(sent)]
            /\ loc' = [loc EXCEPT ![p].was_open = TRUE]
            /\ pc' = [pc EXCEPT ![p] = "done"]
            /\ UNCHANGED lock
       ELSE /\ lock' = [lock EXCEPT !.w = p]
            /\ pc' = [pc EXCEPT ![p] = "open_read"]
            /\ UNCHANGED <<res, loc>>
    /\ UNCHANGED <<events, seq, open_events, children, eventdb, rq, created>>
    /\ UNCHANGED concurrent
    /\ UNCHANGED nreq
    /\ sig' = [sig EXCEPT ![p] = Emitted(res'[p], TRUE)]
    /\ val' = [val EXCEPT ![p] = UnitReply(res'[p])]
    /\ UNCHANGED remote
    /\ UNCHANGED <<recs, sqllog, arg, ret>>

\* event_data_from_sql answers. A local event gets its directory
\* (create_file_path) and migrate_db is started; any other event is inserted
\* without a child.
OpenRead(p) ==
    /\ pc[p] = "open_read"
    /\ LET id == loc[p].event_id IN
       \E answered \in BOOLEAN, mkdir \in BOOLEAN :
         IF ~answered \/ id \notin DOMAIN events
         THEN /\ res' = [res EXCEPT ![p] =
                     Err(IF answered THEN "Event id not found" ELSE "storage")]
              /\ pc' = [pc EXCEPT ![p] = "done"]
              /\ lock' = [lock EXCEPT !.w = NoProc]
              /\ UNCHANGED <<open_events, eventdb, loc>>
         ELSE IF events[id].api_token = NullToken
         THEN /\ res' = [res EXCEPT ![p] = Panicked]
              /\ pc' = [pc EXCEPT ![p] = "done"]
              /\ lock' = [lock EXCEPT !.w = NoProc]
              /\ UNCHANGED <<open_events, eventdb, loc>>
         ELSE IF ~events[id].data.is_local
         THEN /\ open_events' = Put(open_events, id,
                                    [data |-> events[id].data, qxsql_process |-> 0])
              /\ \E sent \in BOOLEAN : res' = [res EXCEPT ![p] = AfterSignal(sent)]
              /\ pc' = [pc EXCEPT ![p] = "done"]
              /\ lock' = [lock EXCEPT !.w = NoProc]
              /\ UNCHANGED <<eventdb, loc>>
         ELSE IF ~eventdb[id].dir /\ ~mkdir
         THEN /\ res' = [res EXCEPT ![p] = Err("create_dir_all")]
              /\ pc' = [pc EXCEPT ![p] = "done"]
              /\ lock' = [lock EXCEPT !.w = NoProc]
              /\ UNCHANGED <<open_events, eventdb, loc>>
         ELSE /\ eventdb' = [eventdb EXCEPT ![id].dir = TRUE]
              /\ loc' = [loc EXCEPT ![p].data = events[id].data]
              /\ pc' = [pc EXCEPT ![p] = "open_migrate"]
              /\ UNCHANGED <<open_events, lock, res>>
    /\ UNCHANGED <<events, seq, children, rq, created>>
    /\ UNCHANGED concurrent
    /\ UNCHANGED nreq
    /\ sig' = [sig EXCEPT ![p] = Emitted(res'[p], TRUE)]
    /\ val' = [val EXCEPT ![p] = UnitReply(res'[p])]
    /\ UNCHANGED remote
    /\ UNCHANGED <<recs, sqllog, arg, ret>>

\* self.open_events.insert(..) is the last statement of open_event, behind
\* every `?`: the entry exists only when `r` is Ok.
OpenedMap_Partial(m, id, data, r, pid) ==
    Put(m, id, [data |-> data, qxsql_process |-> IF r = "Ok" THEN pid ELSE 0])
OpenedMap(m, id, data, r, pid) ==
    IF r = "Ok" THEN Put(m, id, [data |-> data, qxsql_process |-> pid]) ELSE m

\* migrate_db answers; then Command::new("qxsqld")...spawn()? and the insert
\* of the OpenEvent that owns the child; the guard is dropped and, after an
\* Ok, lsmod(true) is sent.
OpenMigrate(p) ==
    /\ pc[p] = "open_migrate"
    /\ LET id == loc[p].event_id IN
       \E fail \in MigrateFailures, spawned \in BOOLEAN :
         LET m   == migrate_db(eventdb[id], fail)
             r   == IF m[1] # "Ok" THEN m[1] ELSE IF spawned THEN "Ok" ELSE "spawn"
             pid == Len(children) + 1
         IN /\ eventdb' = [eventdb EXCEPT ![id] = m[2]]
            /\ children' = IF r = "Ok"
                           THEN Append(children, [event |-> id, st |-> "running"])
                           ELSE children
            /\ open_events' = OpenedMap(open_events, id, loc[p].data, r, pid)
            /\ IF r = "Ok"
               THEN \E sent \in BOOLEAN : res' = [res EXCEPT ![p] = AfterSignal(sent)]
               ELSE res' = [res EXCEPT ![p] = Err(r)]
    /\ lock' = [lock EXCEPT !.w = IF @ = p THEN NoProc ELSE @]
    /\ pc' = [pc EXCEPT ![p] = "done"]
    /\ UNCHANGED <<events, seq, rq, loc, created>>
    /\ UNCHANGED concurrent
    /\ UNCHANGED nreq
    /\ sig' = [sig EXCEPT ![p] = Emitted(res'[p], TRUE)]
    /\ val' = [val EXCEPT ![p] = UnitReply(res'[p])]
    /\ UNCHANGED remote
    /\ UNCHANGED <<recs, sqllog, arg, ret>>

\* ------------------------------------------------------------------ close
\* A close request arrives on the path of event `id`.
RecvClose(p) ==
    /\ pc[p] = "idle"
    /\ \E path \in Paths :
        LET n == from_path(PathStr(path)) IN
        /\ n.ok /\ n.node = "Event"
        /\ rq' = [rq EXCEPT ![p] = [NoRq EXCEPT !.method = "close", !.id = n.id,
                                                !.path = path]]
        /\ loc' = [loc EXCEPT ![p] = [NoLoc EXCEPT !.event_id = n.id]]
    /\ pc' = [pc EXCEPT ![p] = "close_lock"]
    /\ UNCHANGED <<events, seq, open_events, children, eventdb, lock, res, created>>
    /\ UNCHANGED concurrent
    /\ nreq < MaxRequests /\ nreq' = nreq + 1
    /\ UNCHANGED <<sig, val>>
    /\ UNCHANGED remote
    /\ UNCHANGED <<recs, sqllog, arg, ret>>

\* child.kill(): SIGKILL reaches a running child, or the call fails. A
\* failed call has sent nothing: the child is as it was (running, or gone
\* already).
Kill(ch, c, killed) ==
    IF killed /\ ch[c].st = "running" THEN [ch EXCEPT ![c].st = "killed"] ELSE ch

\* open_events.remove(&event_id) is the first statement of close_event,
\* before child.kill()?: the entry is gone whatever kill returns.
RemovedBeforeKill_IfKilled(m, id, killed) == IF killed THEN Del(m, id) ELSE m
RemovedBeforeKill(m, id, killed) == Del(m, id)

\* State::close_event on an id that is not in the map: the `if let Some`
\* does not match and the function returns Ok(()).
CloseNotOpen_Error(sent) == Err("Event not found")
CloseNotOpen(sent) == AfterSignal(sent)

\* The guard is acquired; State::close_event removes the entry and, when it
\* owned a child, calls child.kill()? and starts to await child.status().
\* Every return (not open, no child, kill failed) drops the guard; after an
\* Ok lsmod(false) is sent.
CloseAcquire(p) ==
    /\ pc[p] = "close_lock"
    /\ WriteFree
    /\ LET id == loc[p].event_id IN
       IF ~contains_key(open_events, id)
       THEN /\ \E sent \in BOOLEAN : res' = [res EXCEPT ![p] = CloseNotOpen(sent)]
            /\ pc' = [pc EXCEPT ![p] = "done"]
            /\ UNCHANGED <<open_events, children, lock, loc>>
       ELSE LET c == open_events[id].qxsql_process IN
            /\ IF c = 0
               THEN /\ open_events' = Del(open_events, id)
                    /\ \E sent \in BOOLEAN : res' = [res EXCEPT ![p] = AfterSignal(sent)]
                    /\ pc' = [pc EXCEPT ![p] = "done"]
                    /\ UNCHANGED <<children, lock, loc>>
               ELSE \E killed \in BOOLEAN :
                    /\ open_events' = RemovedBeforeKill(open_events, id, killed)
                    /\ children' = Kill(children, c, killed)
                    /\ IF killed
                       THEN /\ loc' = [loc EXCEPT ![p].child = c]
                            /\ lock' = [lock EXCEPT !.w = p]
                            /\ pc' = [pc EXCEPT ![p] = "close_status"]
                            /\ UNCHANGED res
                       ELSE /\ res' = [res EXCEPT ![p] = Err("kill")]
                            /\ pc' = [pc EXCEPT ![p] = "done"]
                            /\ UNCHANGED <<lock, loc>>
    /\ UNCHANGED <<events, seq, eventdb, rq, created>>
    /\ UNCHANGED concurrent
    /\ UNCHANGED nreq
    /\ sig' = [sig EXCEPT ![p] = Emitted(res'[p], FALSE)]
    /\ val' = [val EXCEPT ![p] = UnitReply(res'[p])]
    /\ UNCHANGED remote
    /\ UNCHANGED <<recs, sqllog, arg, ret>>

\* child.status().await? resolves once the child has exited, or fails; the
\* guard is dropped and, after an Ok, lsmod(false) is sent.
CloseStatus(p) ==
    /\ pc[p] = "close_status"
    /\ \/ /\ children[loc[p].child].st = "exited"
          /\ \E sent \in BOOLEAN : res' = [res EXCEPT ![p] = AfterSignal(sent)]
       \/ res' = [res EXCEPT ![p] = Err("status")]
    /\ lock' = [lock EXCEPT !.w = NoProc]
    /\ pc' = [pc EXCEPT ![p] = "done"]
    /\ UNCHANGED <<events, seq, open_events, children, eventdb, rq, loc, created>>
    /\ UNCHANGED concurrent
    /\ UNCHANGED nreq
    /\ sig' = [sig EXCEPT ![p] = Emitted(res'[p], FALSE)]
    /\ val' = [val EXCEPT ![p] = UnitReply(res'[p])]
    /\ UNCHANGED remote
    /\ UNCHANGED <<recs, sqllog, arg, ret>>

\* A qxsqld child exits: after SIGKILL, or on its own.
ChildExit(c) ==
    /\ children[c].st \in {"running", "killed"}
    /\ children' = [children EXCEPT ![c].st = "exited"]
    /\ UNCHANGED <<events, seq, open_events, eventdb, lock, pc, rq, loc, res, created>>
    /\ UNCHANGED concurrent
    /\ UNCHANGED nreq
    /\ UNCHANGED <<sig, val>>
    /\ UNCHANGED remote
    /\ UNCHANGED <<recs, sqllog, arg, ret>>

\* ------------------------------------------------------------------- info
\* shvproto::to_rpcvalue(&EventData): the serde map of the struct's fields
\* (date is not modelled).
EventDataToRpcValue_TokenField(d) ==
    [name |-> d.name, owner |-> d.owner, is_local |-> d.is_local, api_token |-> ""]
EventDataToRpcValue(d) ==
    [name |-> d.name, owner |-> d.owner, is_local |-> d.is_local]

\* An info request arrives on the node of event `id`.
RecvInfo(p) ==
    /\ pc[p] = "idle"
    /\ \E path \in Paths :
        LET n == from_path(PathStr(path)) IN
        /\ n.ok /\ n.node = "Event"
        /\ rq' = [rq EXCEPT ![p] = [NoRq EXCEPT !.method = "info", !.id = n.id,
                                                !.path = path]]
        /\ loc' = [loc EXCEPT ![p] = [NoLoc EXCEPT !.event_id = n.id]]
    /\ pc' = [pc EXCEPT ![p] = "info_lock"]
    /\ nreq < MaxRequests /\ nreq' = nreq + 1
    /\ UNCHANGED <<events, seq, open_events, children, eventdb, lock, res, created,
                   concurrent, sig, val>>
    /\ UNCHANGED remote
    /\ UNCHANGED <<recs, sqllog, arg, ret>>

\* app_state.read().await resolves; open_events.get(&event_id) is cloned or
\* is the error "Event not found"; the reader guard is dropped with the
\* statement.
InfoAcquire(p) ==
    /\ pc[p] = "info_lock"
    /\ ReadFree
    /\ LET id == loc[p].event_id IN
       IF id \in DOMAIN open_events
       THEN /\ loc' = [loc EXCEPT ![p].data = open_events[id].data]
            /\ val' = [val EXCEPT ![p] =
                          [NoVal EXCEPT !.kind = "map",
                                        !.map = EventDataToRpcValue(open_events[id].data)]]
            /\ res' = [res EXCEPT ![p] = Ok(0, "")]
       ELSE /\ res' = [res EXCEPT ![p] = Err("Event not found")]
            /\ UNCHANGED <<loc, val>>
    /\ pc' = [pc EXCEPT ![p] = "done"]
    /\ UNCHANGED <<events, seq, open_events, children, eventdb, lock, rq, created,
                   concurrent, nreq, sig>>
    /\ UNCHANGED remote
    /\ UNCHANGED <<recs, sqllog, arg, ret>>

\* ------------------------------------------------------- root ls, paths
\* An ls request arrives on the root node.
RecvLs(p) ==
    /\ pc[p] = "idle"
    /\ rq' = [rq EXCEPT ![p] = [NoRq EXCEPT !.method = "ls"]]
    /\ pc' = [pc EXCEPT ![p] = "ls_lock"]
    /\ nreq < MaxRequests /\ nreq' = nreq + 1
    /\ UNCHANGED <<events, seq, open_events, children, eventdb, lock, loc, res, created,
                   concurrent, sig, val>>
    /\ UNCHANGED remote
    /\ UNCHANGED <<recs, sqllog, arg, ret>>

\* app_state.read().await resolves inside list_events; the guard is
\* dropped with the statement and the list is the result.
LsAcquire(p) ==
    /\ pc[p] = "ls_lock"
    /\ ReadFree
    /\ val' = [val EXCEPT ![p] = [NoVal EXCEPT !.kind = "list",
                                               !.list = list_events(open_events)]]
    /\ res' = [res EXCEPT ![p] = Ok(0, "")]
    /\ pc' = [pc EXCEPT ![p] = "done"]
    /\ UNCHANGED <<events, seq, open_events, children, eventdb, lock, rq, loc, created,
                   concurrent, nreq, sig>>
    /\ UNCHANGED remote
    /\ UNCHANGED <<recs, sqllog, arg, ret>>

\* ------------------------------------------------- event node: dir, ls
\* dir.resolve(EVENT_METHODS) answers with the method table of an event
\* node and ls.resolve(EVENT_METHODS, || Ok(vec![])) with no children; the
\* event id of the path is not looked up.
EventIntrospection(m) ==
    [NoVal EXCEPT !.kind = "list",
                  !.list = IF m = "dir" THEN <<"dir", "ls", "info", "close">> ELSE <<>>]

RecvEventIntrospect(p) ==
    /\ pc[p] = "idle"
    /\ \E path \in Paths, m \in {"dir", "ls"} :
        LET n == from_path(PathStr(path)) IN
        /\ n.ok /\ n.node = "Event"
        /\ rq' = [rq EXCEPT ![p] = [NoRq EXCEPT !.method = m, !.id = n.id, !.path = path]]
        /\ loc' = [loc EXCEPT ![p] = [NoLoc EXCEPT !.event_id = n.id]]
        /\ val' = [val EXCEPT ![p] = EventIntrospection(m)]
    /\ res' = [res EXCEPT ![p] = Ok(0, "")]
    /\ pc' = [pc EXCEPT ![p] = "done"]
    /\ nreq < MaxRequests /\ nreq' = nreq + 1
    /\ UNCHANGED <<events, seq, open_events, children, eventdb, lock, created,
                   concurrent, sig, remote, recs, sqllog, arg, ret>>

\* ---------------------------------------------------- unresolved requests
\* The names the handler matches at the root and on an event node
\* (Method::Dir, Method::Ls and the arms of `match method`).
ROOT_METHODS  == {"dir", "ls", "createEvent", "openEvent", "openEventApi"}
EVENT_METHODS == {"dir", "ls", "info", "close"}
RouteMethods  == {"info", "deleteEvent"}

\* request_handler returns err_unresolved_request(): from_path failed, or
\* the method is none of those matched for the node. Nothing is locked or
\* read before the return.
RecvUnresolved(p) ==
    /\ pc[p] = "idle"
    /\ \E path \in Paths, m \in RouteMethods, t \in Tokens :
        LET n == from_path(PathStr(path)) IN
        /\ \/ ~n.ok
           \/ n.node = "Root" /\ m \notin ROOT_METHODS
           \/ n.node = "Event" /\ m \notin EVENT_METHODS
        /\ rq' = [rq EXCEPT ![p] = [NoRq EXCEPT !.method = m, !.path = path,
                     !.token = IF m = "deleteEvent" THEN t ELSE ""]]
    /\ res' = [res EXCEPT ![p] = Unresolved]
    /\ pc' = [pc EXCEPT ![p] = "done"]
    /\ nreq < MaxRequests /\ nreq' = nreq + 1
    /\ UNCHANGED <<events, seq, open_events, children, eventdb, lock, loc, created,
                   concurrent, sig, val>>
    /\ UNCHANGED remote
    /\ UNCHANGED <<recs, sqllog, arg, ret>>

\* ---------------------------------------------------------- EventRpcProxy
\* shvrpc::util::join_path: the two paths with '/' between them, or the
\* one that is not empty.
join_path(a, b) ==
    IF Len(a) = 0 THEN b ELSE IF Len(b) = 0 THEN a ELSE a \o <<"/">> \o b

\* State::event_mount_point(event_id): the externally visible mount point
\* of the event, derived from its id.
event_mount_point(event_id) == mount_point(event_id)

\* Method names of requests that are Method::Other, and the names a remote
\* dir may list.
ProxyMethods  == {"get", "set"}
RemoteMethods == {"get"}
ProxyPaths    == { <<SegFoo>> }

\* A call issued through client_cmd_tx to the remote subtree: RpcCall::new(
\* path, method).exec(); `ok` is whether it returned Ok, `table` the method
\* names a dir returned.
RemoteCall(path, method, ok, table, answer) ==
    [path |-> path, method |-> method, ok |-> ok, table |-> table, answer |-> answer]

\* What .exec(&client_cmd_tx).await of a forwarded call comes back with: the
\* value of the remote, or a CallRpcMethodErrorKind.
NoAnswer == [kind |-> "none", code |-> "", msg |-> "", value |-> <<>>]
RemoteValues == { <<>>, <<"a">> }
RemoteAnswers ==
    { [NoAnswer EXCEPT !.kind = "Ok", !.value = v] : v \in RemoteValues }
    \cup { [NoAnswer EXCEPT !.kind = "ConnectionClosed"],
           [NoAnswer EXCEPT !.kind = "InvalidMessage", !.msg = "invalid"],
           [NoAnswer EXCEPT !.kind = "ResultTypeMismatch", !.msg = "mismatch"] }
    \cup { [NoAnswer EXCEPT !.kind = "RpcError", !.code = c, !.msg = "remote"] :
              c \in {"MethodCallException", "MethodNotFound"} }

\* forward_rpc_call's match on the result: Ok(v) => Ok(v); a remote
\* RpcError is cloned; every other kind becomes MethodCallCancelled with
\* the text of the failure. [res, val]
ForwardedVal(v) == [kind |-> "value", map |-> <<>>, list |-> v]
forward_rpc_call_Cancelled(a) ==
    IF a.kind = "Ok" THEN [res |-> Ok(0, ""), val |-> ForwardedVal(a.value)]
    ELSE [res |-> RpcErr("MethodCallCancelled", a.msg), val |-> NoVal]
forward_rpc_call(a) ==
    IF a.kind = "Ok" THEN [res |-> Ok(0, ""), val |-> ForwardedVal(a.value)]
    ELSE IF a.kind = "ConnectionClosed"
    THEN [res |-> RpcErr("MethodCallCancelled", "ConnectionClosed"), val |-> NoVal]
    ELSE IF a.kind = "RpcError" THEN [res |-> RpcErr(a.code, a.msg), val |-> NoVal]
    ELSE [res |-> RpcErr("MethodCallCancelled", a.msg), val |-> NoVal]

\* Method::resolve(methods, handler): the handler runs only for a method
\* that the table names; any other is an unresolved request.
resolve_Always(methods, method) == TRUE
resolve(methods, method) == method \in methods

\* A request with a method other than dir and ls is handed to the proxy of
\* event `id`.
ProxyRecv(p) ==
    /\ pc[p] = "idle"
    /\ \E id \in EventIds, path \in ProxyPaths, m \in ProxyMethods :
        /\ rq' = [rq EXCEPT ![p] = [NoRq EXCEPT !.method = m, !.id = id, !.path = path]]
        /\ loc' = [loc EXCEPT ![p] = [NoLoc EXCEPT !.event_id = id]]
    /\ pc' = [pc EXCEPT ![p] = "proxy_mount"]
    /\ nreq < MaxRequests /\ nreq' = nreq + 1
    /\ UNCHANGED <<events, seq, open_events, children, eventdb, lock, res, created,
                   concurrent, sig, val, remote>>
    /\ UNCHANGED <<recs, sqllog, arg, ret>>

\* app_state.read().await resolves, the mount point is read (the guard is
\* dropped with the statement) and joined with the path of the request.
ProxyMount(p) ==
    /\ pc[p] = "proxy_mount"
    /\ ReadFree
    /\ loc' = [loc EXCEPT ![p].shv_path =
                  join_path(event_mount_point(loc[p].event_id), PathStr(rq[p].path))]
    /\ pc' = [pc EXCEPT ![p] = "proxy_dir"]
    /\ UNCHANGED <<events, seq, open_events, children, eventdb, lock, rq, res, created,
                   concurrent, nreq, sig, val, remote>>
    /\ UNCHANGED <<recs, sqllog, arg, ret>>

\* methods_on_path(&shv_path, ..).await.unwrap_or_default(): the remote dir
\* answers with a table or the call fails, and a failed call leaves the
\* empty table; rq.set_shvpath(&shv_path); then m.resolve(methods, ..).
ProxyDir(p) ==
    /\ pc[p] = "proxy_dir"
    /\ \E ok \in BOOLEAN, table \in SUBSET RemoteMethods :
        LET methods == IF ok THEN table ELSE {} IN
        /\ ~ok => table = {}
        /\ remote' = [remote EXCEPT ![p] =
                         Append(@, RemoteCall(loc[p].shv_path, "dir", ok, table, NoAnswer))]
        /\ loc' = [loc EXCEPT ![p].methods = methods]
        /\ IF resolve(methods, rq[p].method)
           THEN /\ pc' = [pc EXCEPT ![p] = "proxy_forward"]
                /\ UNCHANGED res
           ELSE /\ pc' = [pc EXCEPT ![p] = "done"]
                /\ res' = [res EXCEPT ![p] = Unresolved]
    /\ UNCHANGED <<events, seq, open_events, children, eventdb, lock, rq, created,
                   concurrent, nreq, sig, val>>
    /\ UNCHANGED <<recs, sqllog, arg, ret>>

\* forward_rpc_call: the request is reissued on shv_path; the result is
\* returned, a remote RpcError is passed through, any other failure is
\* MethodCallCancelled.
ProxyForward(p) ==
    /\ pc[p] = "proxy_forward"
    /\ \E a \in RemoteAnswers :
        /\ remote' = [remote EXCEPT ![p] =
                         Append(@, RemoteCall(loc[p].shv_path, rq[p].method, a.kind = "Ok",
                                              {}, a))]
        /\ res' = [res EXCEPT ![p] = forward_rpc_call(a).res]
        /\ val' = [val EXCEPT ![p] = forward_rpc_call(a).val]
    /\ pc' = [pc EXCEPT ![p] = "done"]
    /\ UNCHANGED <<events, seq, open_events, children, eventdb, lock, rq, loc, created,
                   concurrent, nreq, sig>>
    /\ UNCHANGED <<recs, sqllog, arg, ret>>

\* ----------------------------------------------------- SqlNode: delete
\* A delete request for table `events` arrives on the sql node.
RecvSqlDelete(p) ==
    /\ pc[p] = "idle"
    /\ \E id \in EventIds :
        rq' = [rq EXCEPT ![p] = [NoRq EXCEPT !.method = "delete", !.id = id,
                                                !.table = "events"]]
    /\ pc' = [pc EXCEPT ![p] = "sql_pool"]
    /\ UNCHANGED <<events, seq, open_events, children, eventdb, lock, loc, res, created>>
    /\ UNCHANGED concurrent
    /\ nreq < MaxRequests /\ nreq' = nreq + 1
    /\ UNCHANGED <<sig, val>>
    /\ UNCHANGED remote
    /\ UNCHANGED <<recs, sqllog, arg, ret>>

\* QxAppSql(self.app_state.read().await.db_pool.clone()): the reader guard
\* lives for this statement only; delete_record is issued without it.
SqlClonePool(p) ==
    /\ pc[p] = "sql_pool"
    /\ ReadFree
    /\ pc' = [pc EXCEPT ![p] = IF rq[p].table = "events" THEN "sql_delete" ELSE "sql_exec"]
    /\ UNCHANGED <<events, seq, open_events, children, eventdb, lock, rq, loc, res, created>>
    /\ UNCHANGED concurrent
    /\ UNCHANGED nreq
    /\ UNCHANGED <<sig, val>>
    /\ UNCHANGED remote
    /\ UNCHANGED <<recs, sqllog, arg, ret>>

\* qxsql.delete_record(&param.table, param.id) answers.
SqlDelete(p) ==
    /\ pc[p] = "sql_delete"
    /\ \E answered \in BOOLEAN :
        IF ~answered
        THEN /\ res' = [res EXCEPT ![p] = Err("storage")]
             /\ UNCHANGED events
        ELSE /\ events' = Del(events, rq[p].id)
             /\ res' = [res EXCEPT ![p] =
                   [Ok(0, "") EXCEPT !.msg = IF rq[p].id \in DOMAIN events THEN "true" ELSE "false"]]
    /\ sqllog' = [sqllog EXCEPT ![p] =
          [stmts   |-> IF res'[p].st = "Ok" THEN <<"DELETE">> ELSE <<>>,
           signals |-> IF res'[p].st = "Ok" /\ res'[p].msg = "true"
                       THEN <<[table |-> "events", id |-> rq[p].id, record |-> <<>>,
                               op |-> "Delete"]>>
                       ELSE <<>>]]
    /\ pc' = [pc EXCEPT ![p] = "done"]
    /\ UNCHANGED <<seq, open_events, children, eventdb, lock, rq, loc, created>>
    /\ UNCHANGED concurrent
    /\ UNCHANGED nreq
    /\ UNCHANGED <<sig, val>>
    /\ UNCHANGED remote
    /\ UNCHANGED <<recs, arg, ret>>

\* ------------------------------------- SqlNode: create, read, update, delete
\* Values of a record are tagged scalars; a stored value has the storage
\* class SQLite gave it.
RpcValue(tag, s, i, b) == [tag |-> tag, s |-> s, i |-> i, b |-> b]
BoundValue(tag, s, i)  == [tag |-> tag, s |-> s, i |-> i]

\* update_table's match on the value of a field: String, Int, DateTime
\* (as RFC 3339 text) and Null are bound; any other value is the error
\* ToSqlConversionFailure("Unsupported value type for field ..").
Bindable(value) == value.tag \in {"String", "Int", "DateTime", "Null"}
Bound(value) ==
    IF value.tag = "Int" THEN BoundValue("Integer", "", value.i)
    ELSE IF value.tag = "Null" THEN BoundValue("Null", "", 0)
    ELSE BoundValue("Text", value.s, 0)

\* The table "t" of the requests has the columns id, name, n; the records
\* and ids the requests carry (9 is the id of no row).
Columns    == {"name", "n"}
SqlIds     == {1, 2}
SqlRecords ==
    { <<>>,
      "id" :> RpcValue("Int", "", 9, FALSE),
      "name" :> RpcValue("String", "x", 0, FALSE),
      "id" :> RpcValue("Int", "", 9, FALSE) @@ "name" :> RpcValue("String", "y", 0, FALSE)
          @@ "n" :> RpcValue("Int", "", 1, FALSE),
      "name" :> RpcValue("Bool", "", 0, TRUE) }

\* What a call of the sql layer comes back with: Ok or Err, the id or the
\* number of rows, the table afterwards and the statements executed.
SqlOut(st, msg, n, t, stmts) ==
    [st |-> st, msg |-> msg, n |-> n, tbl |-> t, stmts |-> stmts]

\* update_table: the SET clause takes every field of the record but "id";
\* an unsupported value and an empty SET clause are errors returned before
\* the statement is prepared; "UPDATE .. SET .. WHERE id = :id" with the id
\* argument; the number of rows affected.
update_table_NoCheck(tbl, id, rec) ==
    LET fields == DOMAIN rec \ {"id"} IN
    IF \E k \in fields : ~Bindable(rec[k])
    THEN SqlOut("Err", "Unsupported value type", 0, tbl, <<>>)
    ELSE SqlOut("Ok", "", IF id \in DOMAIN tbl THEN 1 ELSE 0,
                IF id \in DOMAIN tbl
                THEN [tbl EXCEPT ![id] =
                        [c \in Columns |-> IF c \in fields THEN Bound(rec[c]) ELSE @[c]]]
                ELSE tbl,
                <<"UPDATE">>)
update_table_SetsId(tbl, id, rec) ==
    LET fields == DOMAIN rec \ {"id"}
        row    == [c \in Columns |-> IF c \in fields THEN Bound(rec[c]) ELSE tbl[id][c]]
    IN
    IF \E k \in fields : ~Bindable(rec[k])
    THEN SqlOut("Err", "Unsupported value type", 0, tbl, <<>>)
    ELSE IF fields = {} THEN SqlOut("Err", "No fields to update", 0, tbl, <<>>)
    ELSE SqlOut("Ok", "", IF id \in DOMAIN tbl THEN 1 ELSE 0,
                IF id \in DOMAIN tbl
                THEN IF "id" \in DOMAIN rec
                     THEN Put(Del(tbl, id), rec["id"].i, row)
                     ELSE [tbl EXCEPT ![id] = row]
                ELSE tbl,
                <<"UPDATE">>)
update_table_Stale(tbl, id, rec) ==
    LET fields == DOMAIN rec \ {"id"} IN
    IF \E k \in fields : ~Bindable(rec[k])
    THEN SqlOut("Err", "Unsupported value type", 0, tbl, <<>>)
    ELSE IF fields = {} THEN SqlOut("Err", "No fields to update", 0, tbl, <<>>)
    ELSE SqlOut("Ok", "", IF id \in DOMAIN tbl THEN 1 ELSE 0, tbl, <<"UPDATE">>)
update_table(tbl, id, rec) ==
    LET fields == DOMAIN rec \ {"id"} IN
    IF \E k \in fields : ~Bindable(rec[k])
    THEN SqlOut("Err", "Unsupported value type", 0, tbl, <<>>)
    ELSE IF fields = {} THEN SqlOut("Err", "No fields to update", 0, tbl, <<>>)
    ELSE SqlOut("Ok", "", IF id \in DOMAIN tbl THEN 1 ELSE 0,
                IF id \in DOMAIN tbl
                THEN [tbl EXCEPT ![id] =
                        [c \in Columns |-> IF c \in fields THEN Bound(rec[c]) ELSE @[c]]]
                ELSE tbl,
                <<"UPDATE">>)

\* update_record(table, id, record) -> bool: the update, true when a row
\* was affected.
update_record(tbl, id, rec) == update_table(tbl, id, rec)

\* create_record(table, record) -> id: an empty record is an error and no
\* statement is issued; otherwise one INSERT of the fields of the record,
\* the other columns NULL, and the id of the new row.
create_record(tbl, rec) ==
    IF DOMAIN rec = {} THEN SqlOut("Err", "empty record", 0, tbl, <<>>)
    ELSE LET id == MaxOf(DOMAIN tbl) + 1 IN
         SqlOut("Ok", "", id,
                Put(tbl, id, [c \in Columns |->
                                IF c \in DOMAIN rec THEN Bound(rec[c]) ELSE BoundValue("Null", "", 0)]),
                <<"INSERT">>)

\* read_record(table, id, fields) -> Record?: the row whose id column is
\* the id, or none ("not found").
read_record(tbl, id) ==
    SqlOut("Ok", "", IF id \in DOMAIN tbl THEN 1 ELSE 0, tbl, <<"SELECT">>)

\* delete_record(table, id) -> bool: true when a row was deleted.
delete_record(tbl, id) ==
    SqlOut("Ok", "", IF id \in DOMAIN tbl THEN 1 ELSE 0, Del(tbl, id), <<"DELETE">>)

\* The call of the sql layer a request makes.
SqlCall(tbl, r) ==
    IF r.method = "create" THEN create_record(tbl, r.record)
    ELSE IF r.method = "read" THEN read_record(tbl, r.id)
    ELSE IF r.method = "update" THEN update_record(tbl, r.id, r.record)
    ELSE delete_record(tbl, r.id)

\* `if let Ok(insert_id) = insert_id`, `if let Ok(update_success) =
\* update_success && update_success`, `if let Ok(was_deleted) = was_deleted
\* && was_deleted`: the handlers that send the signal "recchng".
ShouldSignal_OnOk(method, out) ==
    method \in {"create", "update", "delete"} /\ out.st = "Ok"
ShouldSignal(method, out) ==
    /\ method \in {"create", "update", "delete"}
    /\ out.st = "Ok"
    /\ method = "create" \/ out.n > 0

\* RecChng { table, id, record, op, issuer }: id is the insert id of a
\* create and the id parameter otherwise; a delete carries no record.
RecChng(r, out) ==
    [table  |-> r.table,
     id     |-> IF r.method = "create" THEN out.n ELSE r.id,
     record |-> IF r.method = "delete" THEN <<>> ELSE r.record,
     op     |-> IF r.method = "create" THEN "Insert"
                ELSE IF r.method = "update" THEN "Update" ELSE "Delete"]

\* res_to_rpcvalue(result): the insert id, the boolean, the record or null.
SqlResult(r, out) ==
    IF out.st # "Ok" THEN Err(out.msg)
    ELSE IF r.method = "create" THEN Ok(out.n, "")
    ELSE IF r.method = "read" THEN Ok(0, "")
    ELSE [Ok(0, "") EXCEPT !.msg = IF out.n > 0 THEN "true" ELSE "false"]
SqlValue(r, out) ==
    IF out.st = "Ok" /\ r.method = "read"
    THEN IF out.n > 0
         THEN [NoVal EXCEPT !.kind = "map", !.map = out.tbl[r.id]]
         ELSE [NoVal EXCEPT !.kind = "null"]
    ELSE NoVal

\* A create, read, update or delete request for the table arrives on the
\* sql node. A create carries a record without id whose values the engine
\* binds.
RecvSql(p) ==
    /\ pc[p] = "idle"
    /\ \E m \in {"create", "read", "update", "delete"}, id \in SqlIds, rec \in SqlRecords :
        /\ m \in {"read", "delete"} => rec = <<>>
        /\ m = "create" => id = 1
        /\ m = "create" => "id" \notin DOMAIN rec /\ \A k \in DOMAIN rec : Bindable(rec[k])
        /\ rq' = [rq EXCEPT ![p] = [NoRq EXCEPT !.method = m, !.table = "t",
                     !.id = IF m = "create" THEN 0 ELSE id, !.record = rec]]
    /\ pc' = [pc EXCEPT ![p] = "sql_pool"]
    /\ nreq < MaxRequests /\ nreq' = nreq + 1
    /\ UNCHANGED <<events, seq, open_events, children, eventdb, lock, loc, res, created,
                   concurrent, sig, val, remote, recs, sqllog, arg, ret>>

\* The call of the sql layer answers, or the pool fails; after a mutation
\* that succeeded the signal is handed to client_cmd_tx.send_message (a
\* failure of the send is logged only); the result is converted.
SqlExec(p) ==
    /\ pc[p] = "sql_exec"
    /\ \E answered \in BOOLEAN :
        LET out == IF answered THEN SqlCall(recs, rq[p])
                   ELSE SqlOut("Err", "storage", 0, recs, <<>>)
        IN /\ out.st = "Ok" /\ rq[p].method = "create" => out.n \in SqlIds
           /\ recs' = out.tbl
           /\ sqllog' = [sqllog EXCEPT ![p] =
                 [stmts   |-> out.stmts,
                  signals |-> IF ShouldSignal(rq[p].method, out)
                              THEN <<RecChng(rq[p], out)>> ELSE <<>>]]
           /\ res' = [res EXCEPT ![p] = SqlResult(rq[p], out)]
           /\ val' = [val EXCEPT ![p] = SqlValue(rq[p], out)]
    /\ pc' = [pc EXCEPT ![p] = "done"]
    /\ UNCHANGED <<events, seq, open_events, children, eventdb, lock, rq, loc, created,
                   concurrent, nreq, sig, remote, arg, ret>>

\* ---------------------------------------------------------- specification
Next ==
    \/ \E c \in 1..Len(children) : ChildExit(c)
    \/ \E p \in Procs :
        \/ RecvCreate(p)
        \/ CreateAcquire(p)
        \/ CreateInsert(p)
        \/ CreateMount(p)
        \/ RecvOpen(p)
        \/ RecvOpenApi(p)
        \/ ApiAcquire(p)
        \/ ApiLookup(p)
        \/ OpenAcquire(p)
        \/ OpenRead(p)
        \/ OpenMigrate(p)
        \/ RecvClose(p)
        \/ CloseAcquire(p)
        \/ CloseStatus(p)
        \/ RecvSqlDelete(p)
        \/ SqlClonePool(p)
        \/ SqlDelete(p)
        \/ RecvInfo(p)
        \/ InfoAcquire(p)
        \/ RecvLs(p)
        \/ LsAcquire(p)
        \/ RecvUnresolved(p)
        \/ RecvEventIntrospect(p)
        \/ RecvSql(p)
        \/ SqlExec(p)
        \/ ProxyRecv(p)
        \/ ProxyMount(p)
        \/ ProxyDir(p)
        \/ ProxyForward(p)
        \/ Reply(p)

Spec == Init /\ [][Next]_vars

\* The lifecycle requests alone: createEvent, openEvent, close.
NextLifecycle ==
    \/ \E c \in 1..Len(children) : ChildExit(c)
    \/ \E p \in Procs :
        \/ RecvCreate(p)
        \/ CreateAcquire(p)
        \/ CreateInsert(p)
        \/ CreateMount(p)
        \/ RecvOpen(p)
        \/ OpenAcquire(p)
        \/ OpenRead(p)
        \/ OpenMigrate(p)
        \/ RecvClose(p)
        \/ CloseAcquire(p)
        \/ CloseStatus(p)
        \/ Reply(p)

SpecLifecycle == Init /\ [][NextLifecycle]_vars

\* The requests that write and look up the events table: createEvent, the
\* sql node's delete, openEventApi.
NextTable ==
    \/ \E c \in 1..Len(children) : ChildExit(c)
    \/ \E p \in Procs :
        \/ RecvCreate(p)
        \/ CreateAcquire(p)
        \/ CreateInsert(p)
        \/ CreateMount(p)
        \/ RecvOpenApi(p)
        \/ ApiAcquire(p)
        \/ ApiLookup(p)
        \/ OpenAcquire(p)
        \/ OpenRead(p)
        \/ OpenMigrate(p)
        \/ RecvSqlDelete(p)
        \/ SqlClonePool(p)
        \/ SqlDelete(p)
        \/ Reply(p)

SpecTable == Init /\ [][NextTable]_vars

\* createEvent, openEventApi, info and close: the life of an event as a
\* client that holds its api token sees it.
NextInfo ==
    \/ \E c \in 1..Len(children) : ChildExit(c)
    \/ \E p \in Procs :
        \/ RecvCreate(p)
        \/ CreateAcquire(p)
        \/ CreateInsert(p)
        \/ CreateMount(p)
        \/ RecvOpenApi(p)
        \/ ApiAcquire(p)
        \/ ApiLookup(p)
        \/ OpenAcquire(p)
        \/ OpenRead(p)
        \/ OpenMigrate(p)
        \/ RecvInfo(p)
        \/ InfoAcquire(p)
        \/ RecvClose(p)
        \/ CloseAcquire(p)
        \/ CloseStatus(p)
        \/ Reply(p)

SpecInfo == Init /\ [][NextInfo]_vars

\* The root ls over the maps the session can have built: events whose ids
\* are in ListIds, stored as not local (rows written through the sql node),
\* are open without a child; ls and close requests follow.
ListIds == {1, 2, 10}
ListedRow == [api_token |-> "", data |-> [NoData EXCEPT !.owner = "alice"]]
InitList ==
    /\ \E K \in SUBSET ListIds :
        /\ events = [i \in K |-> ListedRow]
        /\ open_events = [i \in K |-> [data |-> ListedRow.data, qxsql_process |-> 0]]
    /\ seq = MaxOf(ListIds)
    /\ children = <<>>
    /\ eventdb = [i \in EventIds |-> [dir |-> FALSE, inited |-> FALSE]]
    /\ lock = [w |-> NoProc, r |-> {}]
    /\ pc = [p \in Procs |-> "idle"]
    /\ rq = [p \in Procs |-> NoRq]
    /\ loc = [p \in Procs |-> NoLoc]
    /\ res = [p \in Procs |-> NoRes]
    /\ created = <<>>
    /\ concurrent = {}
    /\ nreq = 0
    /\ sig = [p \in Procs |-> NoSignal]
    /\ val = [p \in Procs |-> NoVal]
    /\ remote = [p \in Procs |-> <<>>]
    /\ recs = <<>>
    /\ sqllog = [p \in Procs |-> NoLog]
    /\ arg = NoArg
    /\ ret = <<>>

NextList ==
    \E p \in Procs :
        \/ RecvLs(p)
        \/ LsAcquire(p)
        \/ RecvOpen(p)
        \/ OpenAcquire(p)
        \/ OpenRead(p)
        \/ RecvClose(p)
        \/ CloseAcquire(p)
        \/ Reply(p)

SpecList == InitList /\ [][NextList]_vars

\* The router: create, openEvent and info, and the requests the handler
\* does not resolve.
NextRouter ==
    \/ \E p \in Procs :
        \/ RecvCreate(p)
        \/ CreateAcquire(p)
        \/ CreateInsert(p)
        \/ CreateMount(p)
        \/ RecvOpen(p)
        \/ OpenAcquire(p)
        \/ OpenRead(p)
        \/ OpenMigrate(p)
        \/ RecvInfo(p)
        \/ InfoAcquire(p)
        \/ RecvUnresolved(p)
        \/ Reply(p)
    \/ \E c \in 1..Len(children) : ChildExit(c)

SpecRouter == Init /\ [][NextRouter]_vars

\* The proxy beside createEvent and openEvent, whose guards its read of the
\* state waits for.
NextProxy ==
    \/ \E p \in Procs :
        \/ RecvCreate(p)
        \/ CreateAcquire(p)
        \/ CreateInsert(p)
        \/ CreateMount(p)
        \/ RecvOpen(p)
        \/ OpenAcquire(p)
        \/ OpenRead(p)
        \/ OpenMigrate(p)
        \/ ProxyRecv(p)
        \/ ProxyMount(p)
        \/ ProxyDir(p)
        \/ ProxyForward(p)
        \/ Reply(p)
    \/ \E c \in 1..Len(children) : ChildExit(c)

SpecProxy == Init /\ [][NextProxy]_vars

\* The proxy alone: requests handed to it, its calls and their answers.
NextForward ==
    \E p \in Procs :
        \/ ProxyRecv(p)
        \/ ProxyMount(p)
        \/ ProxyDir(p)
        \/ ProxyForward(p)
        \/ Reply(p)

SpecForward == Init /\ [][NextForward]_vars

\* The event nodes of listed events: info, dir, ls, openEvent and close.
NextEventNode ==
    \E p \in Procs :
        \/ RecvInfo(p)
        \/ InfoAcquire(p)
        \/ RecvEventIntrospect(p)
        \/ RecvOpen(p)
        \/ OpenAcquire(p)
        \/ OpenRead(p)
        \/ RecvClose(p)
        \/ CloseAcquire(p)
        \/ Reply(p)

SpecEventNode == InitList /\ [][NextEventNode]_vars

\* The sql node serving one table.
NextSql ==
    \E p \in Procs :
        \/ RecvSql(p)
        \/ SqlClonePool(p)
        \/ SqlExec(p)
        \/ Reply(p)

SpecSql == Init /\ [][NextSql]_vars

\* ------------------------------------------------------------- vocabulary
\* Failures the environment injects (storage, file system, process, channel).
InjectedFailures ==
    {"storage", "create_dir_all", "pool", "exec", "spawn", "kill", "status",
     "setValue", "Failed to send message"}
Pids         == 1..Len(children)
ChildrenOf(id) == {c \in Pids : children[c].event = id}
LiveChildrenOf(id) == {c \in ChildrenOf(id) : children[c].st # "exited"}

\* ------------------------------------------------------------------ claims

\* C1: two openEvent(id) requests for a persisted event that were in flight
\* at the same time (the pair is in `concurrent`) both return success,
\* unless the environment made one of them fail; afterwards the map holds
\* the entry of id and at most one child of id is alive.
C1_ConcurrentOpen ==
    \A p, q \in Procs :
        ( /\ p # q /\ {p, q} \in concurrent
          /\ pc[p] = "done" /\ pc[q] = "done"
          /\ rq[p].method = "openEvent" /\ rq[q].method = "openEvent"
          /\ loc[p].event_id = loc[q].event_id
          /\ loc[p].event_id \in DOMAIN events
          /\ res[p].msg \notin InjectedFailures
          /\ res[q].msg \notin InjectedFailures )
        => /\ res[p].st = "Ok" /\ res[q].st = "Ok"
           /\ loc[p].event_id \in DOMAIN open_events
           /\ Cardinality(LiveChildrenOf(loc[p].event_id)) <= 1

\* C2: openEvent(id) on an id that is in the open-events map returns at
\* once (success, or the failed send of the signal) without reading the
\* row, migrating or spawning: the map, the children, the per-event
\* database and the events table are unchanged.
C2_OpenIdempotent ==
    [][ \A p \in Procs :
          ( /\ pc[p] = "open_lock" /\ pc'[p] # "open_lock"
            /\ loc[p].event_id \in DOMAIN open_events )
          => /\ pc'[p] = "done"
             /\ res'[p] \in {AfterSignal(TRUE), AfterSignal(FALSE)}
             /\ UNCHANGED <<open_events, children, eventdb, events>> ]_vars

C2_Witness ==
    \E p \in Procs :
        /\ pc[p] = "done" /\ rq[p].method = "openEvent"
        /\ loc[p].was_open /\ res[p].st = "Ok"
        /\ loc[p].event_id \in DOMAIN open_events
        /\ Cardinality(ChildrenOf(loc[p].event_id)) = 1

\* C3: a step of openEvent that does not end in success leaves the
\* open-events map as it was, and when open_event returns an error (row
\* read, directory, migration, spawn) the map has no entry for id.
C3_OpenAllOrNothing ==
    [][ \A p \in Procs :
          /\ ( /\ pc[p] \in OpenBody /\ pc'[p] # pc[p]
               /\ ~(pc'[p] = "done" /\ res'[p] \in {AfterSignal(TRUE), AfterSignal(FALSE)}) )
             => open_events' = open_events
          /\ ( /\ pc[p] \in OpenBody /\ pc'[p] = "done"
               /\ res'[p].st = "Err" /\ res'[p].msg # "Failed to send message" )
             => loc[p].event_id \notin DOMAIN open_events' ]_vars

C3_Witness ==
    \E p \in Procs :
        /\ pc[p] = "done" /\ rq[p].method = "openEvent"
        /\ res[p].st = "Err" /\ res[p].msg = "spawn"
        /\ eventdb[loc[p].event_id].inited
        /\ loc[p].event_id \notin DOMAIN open_events

\* C4: when close(id) returns, id is not in the open-events map and no
\* child process of id is running without an entry of the map owning it.
C4_NoOrphan ==
    [][ \A p \in Procs :
          ( /\ pc[p] \in {"close_lock", "close_status"} /\ pc'[p] = "done" )
          => /\ loc[p].event_id \notin DOMAIN open_events'
             /\ \A c \in ChildrenOf(loc[p].event_id) :
                   children'[c].st # "running" ]_vars

\* C5: close(id) on an id that is not in the open-events map returns at
\* once (success, or the failed send of the signal) and leaves the map, the
\* children, the events table and the per-event databases unchanged.
C5_CloseNotOpen ==
    [][ \A p \in Procs :
          ( /\ pc[p] = "close_lock" /\ pc'[p] # "close_lock"
            /\ loc[p].event_id \notin DOMAIN open_events )
          => /\ pc'[p] = "done"
             /\ res'[p] \in {AfterSignal(TRUE), AfterSignal(FALSE)}
             /\ UNCHANGED <<open_events, children, events, seq, eventdb>> ]_vars

C5_Witness ==
    \E p \in Procs :
        /\ pc[p] = "done" /\ rq[p].method = "close"
        /\ res[p].st = "Ok"
        /\ ChildrenOf(loc[p].event_id) = {}
        /\ loc[p].event_id \in DOMAIN events
        /\ open_events # <<>>

\* C6: an openEvent of an event that was open before (a child of it was
\* spawned) and is not open now reaches the migration of its database and
\* ends in success, unless the environment injects a failure.
C6_ReopenSucceeds ==
    [][ \A p \in Procs :
          ( /\ pc[p] = "open_migrate" /\ pc'[p] # "open_migrate"
            /\ ChildrenOf(loc[p].event_id) # {} )
          => \/ res'[p] = AfterSignal(TRUE)
             \/ res'[p].msg \in InjectedFailures ]_vars

\* C7: createEvent with an empty owner returns the validation error at
\* once: no row, no sqlite_sequence change, no token issued, no map change,
\* and the mount registration is never reached.
C7_CreateEmptyOwner ==
    [][ \A p \in Procs :
          ( /\ pc[p] = "create_lock" /\ pc'[p] # "create_lock"
            /\ rq[p].owner = "" )
          => /\ pc'[p] = "done"
             /\ res'[p] = Err("Owner cannot be empty")
             /\ UNCHANGED <<events, seq, created, open_events, children, eventdb>> ]_vars

C7_Witness ==
    \E p \in Procs :
        /\ pc[p] = "done" /\ rq[p].method = "createEvent" /\ rq[p].owner = ""
        /\ res[p] = Err("Owner cannot be empty")
        /\ events # <<>>

\* C8: the ids create_event returns are strictly increasing in the order of
\* creation, whatever rows were deleted in between.
C8_FreshIds ==
    \A i, j \in 1..Len(created) : i < j => created[i].id < created[j].id

C8_Witness ==
    /\ Len(created) = 2
    /\ created[2].rows = 0
    /\ created[1].id < created[2].id
    /\ DOMAIN events = {created[2].id}

\* C9: the api_token values of the rows of the events table are pairwise
\* distinct.
C9_TokensUnique ==
    \A i, j \in DOMAIN events : i # j => events[i].api_token # events[j].api_token

\* C10: for every created event whose row is persisted, the token lookup
\* returns that event's id; for a token no create issued it finds nothing.
C10_TokenToId ==
    /\ \A i \in 1..Len(created) :
          created[i].id \in DOMAIN events
          => api_token_to_event_id(events, created[i].token) = created[i].id
    /\ \A t \in Tokens :
          (\A i \in 1..Len(created) : created[i].token # t)
          => api_token_to_event_id(events, t) = 0

\* C11: createEvent has inserted the row when it issues the registration
\* with the broker; when that call answers the request ends, with the pair
\* (id, token) or with the method-call error of the failed call, and the
\* inserted row is in the events table either way.
C11_MountFailureKeepsRow ==
    [][ \A p \in Procs :
          ( pc[p] = "create_mount" /\ pc'[p] # "create_mount" )
          => /\ pc'[p] = "done"
             /\ res'[p] \in {Ok(loc[p].event_id, loc[p].api_token), Err("setValue")}
             /\ loc[p].event_id \in DOMAIN events
             /\ loc[p].event_id \in DOMAIN events'
             /\ events'[loc[p].event_id] = events[loc[p].event_id] ]_vars

C11_Witness ==
    \E p \in Procs :
        /\ pc[p] = "done" /\ rq[p].method = "createEvent"
        /\ res[p] = Err("setValue")
        /\ loc[p].event_id \in DOMAIN events
        /\ events[loc[p].event_id].api_token = loc[p].api_token

C13_Lifecycle ==
    [][ /\ \A p \in Procs :
             /\ ( pc[p] = "info_lock" /\ pc'[p] = "done" )
                => IF loc[p].event_id \in DOMAIN open_events
                   THEN /\ res'[p].st = "Ok"
                        /\ val'[p].kind = "map"
                        /\ \A i \in 1..Len(created) :
                              created[i].id = loc[p].event_id
                              => val'[p].map["owner"] = created[i].owner
                   ELSE res'[p] = Err("Event not found")
             /\ ( pc[p] \in {"close_lock", "close_status"} /\ pc'[p] = "done" )
                => loc[p].event_id \notin DOMAIN open_events'
        /\ \A id \in EventIds :
             ( id \notin DOMAIN open_events /\ id \in DOMAIN open_events' )
             => \E q \in Procs :
                   /\ rq[q].method = "openEventApi" /\ loc[q].event_id = id
                   /\ pc[q] \in {"open_read", "open_migrate"} /\ pc'[q] = "done" ]_vars

C13_Witness ==
    \E p \in Procs, i \in 1..Len(created) :
        /\ pc[p] = "done" /\ rq[p].method = "info"
        /\ res[p] = Err("Event not found")
        /\ created[i].id = loc[p].event_id /\ created[i].owner = "alice"
        /\ ChildrenOf(loc[p].event_id) # {}
        /\ loc[p].event_id \notin DOMAIN open_events

\* C14: the list the root ls returns holds one string for each id in the
\* open-events map and nothing else, each string the decimal numeral of its
\* id, the ids ascending by value.
C14_ListSorted ==
    [][ \A p \in Procs :
          ( pc[p] = "ls_lock" /\ pc'[p] = "done" )
          => LET l == val'[p].list IN
             /\ val'[p].kind = "list"
             /\ Len(l) = Cardinality(DOMAIN open_events)
             /\ \A i \in 1..Len(l) :
                   /\ parse_i64(l[i]).ok
                   /\ parse_i64(l[i]).v \in DOMAIN open_events
                   /\ l[i][1] # "+"
                   /\ Len(l[i]) > 1 => l[i][1] # "0"
             /\ \A i, j \in 1..Len(l) :
                   i < j => parse_i64(l[i]).v < parse_i64(l[j]).v ]_vars

C14_Witness ==
    \E p \in Procs :
        /\ pc[p] = "done" /\ rq[p].method = "ls"
        /\ val[p].list = << <<"2">>, <<"1", "0">> >>
        /\ DOMAIN open_events = {2, 10}
        /\ nreq > 1

\* C15: a request whose path is not empty and whose first segment is not a
\* signed integer, or whose second segment is there and is not "db", is
\* answered "unresolved request", not with a method-call error, and the
\* events table, the open-events map, the children, the event databases
\* and the lock are as before; no signal is sent.
C15_InvalidPathUnresolved ==
    [][ \A p \in Procs :
          LET segs == rq'[p].path IN
          ( /\ pc[p] = "idle" /\ pc'[p] # "idle"
            /\ Len(segs) > 0
            /\ \/ ~parse_i64(segs[1]).ok
               \/ Len(segs) >= 2 /\ segs[2] # SegDb )
          => /\ pc'[p] = "done"
             /\ res'[p] = Unresolved
             /\ sig'[p] = NoSignal
             /\ UNCHANGED <<events, seq, open_events, children, eventdb, lock>> ]_vars

C15_Witness ==
    \E p, q \in Procs :
        /\ pc[p] = "done" /\ res[p] = Unresolved /\ rq[p].path = <<SegX>>
        /\ pc[q] = "done" /\ res[q] = Unresolved /\ rq[q].path = <<format(1), SegFoo>>
        /\ rq[q].method = "info"
        /\ 1 \in DOMAIN open_events

\* C16: a request on the path <id>/db/<remainder> of an open event is
\* handed to the proxy of that event: it is not answered "unresolved
\* request" by the router.
C16_SubtreeDelegated ==
    [][ \A p \in Procs :
          LET segs == rq'[p].path IN
          ( /\ pc[p] = "idle" /\ pc'[p] # "idle"
            /\ Len(segs) = 3 /\ segs[2] = SegDb
            /\ parse_i64(segs[1]).ok
            /\ parse_i64(segs[1]).v \in DOMAIN open_events )
          => res'[p] # Unresolved ]_vars

\* C19: deleteEvent(token) at the root is resolved: it ends with a boolean
\* and no row of the events table holds the token any more.
C19_DeleteEvent ==
    \A p \in Procs :
        ( pc[p] = "done" /\ rq[p].method = "deleteEvent" /\ rq[p].path = <<>> )
        => /\ res[p].st = "Ok"
           /\ val[p].kind = "bool"
           /\ \A i \in DOMAIN events : events[i].api_token # rq[p].token

\* C17: a successful openEvent(id) returns the mount point of the event as
\* a string, and a successful open by api token returns the list of the id
\* and the mount point.
C17_OpenReturnsMountPoint ==
    \A p \in Procs :
        ( /\ pc[p] = "done" /\ res[p].st = "Ok"
          /\ rq[p].method \in {"openEvent", "openEventApi"} )
        => IF rq[p].method = "openEvent"
           THEN /\ val[p].kind = "string"
                /\ val[p].list = mount_point(loc[p].event_id)
           ELSE /\ val[p].kind = "list"
                /\ val[p].list = <<format(loc[p].event_id), mount_point(loc[p].event_id)>>

\* C18: openEventApi with a token that no row of the events table holds
\* ends at the lookup with an error, "API token not found" unless the
\* query itself failed: the open-events map, the children and the event
\* databases are unchanged and no signal is sent.
C18_UnknownToken ==
    [][ \A p \in Procs :
          ( /\ pc[p] = "api_lookup" /\ pc'[p] # "api_lookup"
            /\ \A i \in DOMAIN events : events[i].api_token # rq[p].token )
          => /\ pc'[p] = "done"
             /\ res'[p].st = "Err"
             /\ res'[p] # Err("storage") => res'[p] = Err("API token not found")
             /\ sig'[p] = NoSignal
             /\ UNCHANGED <<open_events, children, eventdb, events>> ]_vars

C18_Witness ==
    \E p \in Procs :
        /\ pc[p] = "done" /\ rq[p].method = "openEventApi"
        /\ res[p] = Err("API token not found")
        /\ DOMAIN events # {}
        /\ \A i \in DOMAIN events : events[i].api_token # rq[p].token
        /\ sig[p] = NoSignal

\* C20: every call other than dir that a request issues to the remote
\* subtree through the proxy comes after a dir call of the same request on
\* the same path that succeeded and whose table names the method; a
\* request whose method the table does not name, the table of a failed dir
\* being empty, ends unresolved and has issued nothing but the dir.
C20_ForwardOnlyListed ==
    \A p \in Procs :
        /\ \A j \in 1..Len(remote[p]) :
              remote[p][j].method # "dir"
              => \E i \in 1..(j - 1) :
                    /\ remote[p][i].method = "dir"
                    /\ remote[p][i].ok
                    /\ remote[p][i].path = remote[p][j].path
                    /\ remote[p][j].method \in remote[p][i].table
                    /\ remote[p][j].method = rq[p].method
        /\ ( /\ pc[p] = "done" /\ Len(remote[p]) > 0
             /\ ~(remote[p][1].ok /\ rq[p].method \in remote[p][1].table) )
           => /\ res[p] = Unresolved
              /\ Len(remote[p]) = 1

C20_Witness ==
    \E p, q \in Procs :
        /\ pc[p] = "done" /\ Len(remote[p]) = 2 /\ remote[p][2].method = "get"
        /\ remote[p][2].path = mount_point(1) \o <<"/">> \o SegFoo
        /\ pc[q] = "done" /\ Len(remote[q]) = 1 /\ ~remote[q][1].ok
        /\ res[q] = Unresolved

\* C21: the result of a forwarded call is the answer of the remote: its
\* value as it is when it answered Ok; its RpcError with the same code and
\* message; and MethodCallCancelled when the connection was closed, the
\* message was invalid or the type of the result did not match.
C21_ForwardedAnswer ==
    \A p \in Procs :
        ( pc[p] = "done" /\ Len(remote[p]) = 2 )
        => LET a == remote[p][2].answer IN
           /\ a.kind = "Ok"
                => res[p].st = "Ok" /\ val[p].kind = "value" /\ val[p].list = a.value
           /\ a.kind = "RpcError"
                => res[p].st = "Err" /\ res[p].code = a.code /\ res[p].msg = a.msg
           /\ a.kind \in {"ConnectionClosed", "InvalidMessage", "ResultTypeMismatch"}
                => res[p].st = "Err" /\ res[p].code = "MethodCallCancelled"

C21_Witness ==
    \E p, q \in Procs :
        /\ pc[p] = "done" /\ Len(remote[p]) = 2
        /\ remote[p][2].answer.kind = "RpcError"
        /\ remote[p][2].answer.code = "MethodNotFound"
        /\ pc[q] = "done" /\ Len(remote[q]) = 2
        /\ remote[q][2].answer.kind = "Ok" /\ remote[q][2].answer.value = <<"a">>
        /\ nreq > 2

\* C28: an info, dir or ls request on the node of an event id that is not
\* in the open-events map when it is answered fails with the method-call
\* error "Event not found".
C28_EventNotFound ==
    [][ \A p \in Procs :
          ( /\ pc[p] # "done" /\ pc'[p] = "done"
            /\ rq'[p].method \in {"info", "dir", "ls"}
            /\ rq'[p].path \in EventPaths
            /\ rq'[p].id \notin DOMAIN open_events )
          => res'[p] = Err("Event not found") ]_vars

\* C23: a create whose record is empty and an update whose record has no
\* field but "id" end with an error; no statement has been executed, the
\* table is as before and no signal is sent.
C23_EmptyRecordRejected ==
    [][ \A p \in Procs :
          ( /\ pc[p] = "sql_exec" /\ pc'[p] = "done"
            /\ \/ rq[p].method = "create" /\ DOMAIN rq[p].record = {}
               \/ rq[p].method = "update" /\ DOMAIN rq[p].record \subseteq {"id"} )
          => /\ res'[p].st = "Err"
             /\ sqllog'[p].stmts = <<>>
             /\ sqllog'[p].signals = <<>>
             /\ recs' = recs ]_vars

C23_Witness ==
    \E p, q \in Procs :
        /\ pc[p] = "done" /\ rq[p].method = "update"
        /\ DOMAIN rq[p].record = {"id"}
        /\ rq[p].id \in DOMAIN recs
        /\ res[p] = Err("No fields to update")
        /\ pc[q] = "done" /\ rq[q].method = "create" /\ DOMAIN rq[q].record = {}
        /\ res[q] = Err("empty record")

\* C24: an update that affected a row leaves the ids of the table as they
\* were, writes to the row whose id is the id argument every field of the
\* record but "id", and leaves the other columns and the other rows alone;
\* an update that affected no row changes nothing.
C24_UpdateKeepsId ==
    [][ \A p \in Procs :
          ( /\ pc[p] = "sql_exec" /\ pc'[p] = "done"
            /\ rq[p].method = "update" /\ res'[p].st = "Ok" )
          => IF res'[p].msg = "true"
             THEN /\ rq[p].id \in DOMAIN recs
                  /\ DOMAIN recs' = DOMAIN recs
                  /\ \A i \in DOMAIN recs \ {rq[p].id} : recs'[i] = recs[i]
                  /\ \A c \in Columns :
                        recs'[rq[p].id][c] =
                            IF c \in DOMAIN rq[p].record
                            THEN Bound(rq[p].record[c]) ELSE recs[rq[p].id][c]
             ELSE /\ rq[p].id \notin DOMAIN recs
                  /\ recs' = recs ]_vars

C24_Witness ==
    \E p \in Procs :
        /\ pc[p] = "done" /\ rq[p].method = "update" /\ res[p].msg = "true"
        /\ "id" \in DOMAIN rq[p].record /\ rq[p].record["id"].i # rq[p].id
        /\ rq[p].id \in DOMAIN recs
        /\ recs[rq[p].id]["name"] = BoundValue("Text", "y", 0)
        /\ rq[p].record["id"].i \notin DOMAIN recs

\* C26: an update of name that succeeded has stored the name, a read
\* returns the row as it is stored or "not found" when no row has the id,
\* a delete leaves no row with the id, and a row changes only in the
\* create, update or delete of that id: so a read after an update returns
\* the name written and a read after a delete returns "not found" unless
\* the row was written in between.
C26_ReadAfterWrite ==
    [][ /\ \A p \in Procs :
            ( pc[p] = "sql_exec" /\ pc'[p] = "done" /\ res'[p].st = "Ok" )
            => /\ ( rq[p].method = "update" /\ res'[p].msg = "true"
                    /\ "name" \in DOMAIN rq[p].record )
                  => recs'[rq[p].id]["name"].s = rq[p].record["name"].s
               /\ rq[p].method = "read"
                  => IF rq[p].id \in DOMAIN recs
                     THEN val'[p].kind = "map" /\ val'[p].map = recs[rq[p].id]
                     ELSE val'[p].kind = "null"
               /\ rq[p].method = "delete" => rq[p].id \notin DOMAIN recs'
        /\ \A i \in SqlIds :
            ( \/ (i \in DOMAIN recs) # (i \in DOMAIN recs')
              \/ i \in DOMAIN recs /\ i \in DOMAIN recs' /\ recs'[i] # recs[i] )
            => \E p \in Procs :
                  /\ pc[p] = "sql_exec" /\ pc'[p] = "done"
                  /\ \/ rq[p].method = "create"
                     \/ rq[p].method \in {"update", "delete"} /\ rq[p].id = i ]_vars

C26_Witness ==
    \E p, q \in Procs :
        /\ pc[q] = "done" /\ rq[q].method = "update" /\ res[q].msg = "true"
        /\ rq[q].record = "name" :> RpcValue("String", "x", 0, FALSE)
        /\ pc[p] = "done" /\ rq[p].method = "read" /\ rq[p].id = rq[q].id
        /\ val[p].kind = "map" /\ val[p].map["name"] = BoundValue("Text", "x", 0)

\* C27: a request of the sql node sends the signal recchng once, with the
\* operation and the id, exactly when its create returned an id, its
\* update returned true or its delete returned true; a request that
\* failed, an update or delete that affected no row and a read send none.
C27_SignalOnMutation ==
    [][ \A p \in Procs :
          IF pc[p] = "sql_exec" /\ pc'[p] = "done"
          THEN LET sent == sqllog'[p].signals IN
               IF res'[p].st = "Ok" /\ rq[p].method = "create"
               THEN /\ Len(sent) = 1 /\ sent[1].op = "Insert"
                    /\ sent[1].id = res'[p].id /\ sent[1].id \in DOMAIN recs'
               ELSE IF res'[p].st = "Ok" /\ res'[p].msg = "true"
               THEN /\ Len(sent) = 1 /\ sent[1].id = rq[p].id
                    /\ sent[1].op = IF rq[p].method = "update" THEN "Update" ELSE "Delete"
               ELSE sent = <<>>
          ELSE sqllog'[p].signals # sqllog[p].signals => sqllog'[p].signals = <<>> ]_vars

C27_Witness ==
    \E p, q \in Procs :
        /\ pc[p] = "done" /\ rq[p].method = "update" /\ res[p].msg = "false"
        /\ sqllog[p].signals = <<>> /\ sqllog[p].stmts = <<"UPDATE">>
        /\ pc[q] = "done" /\ rq[q].method = "delete" /\ res[q].msg = "true"
        /\ Len(sqllog[q].signals) = 1

-----------------------------------------------------------------------------
\* The SQL provider of sql.rs: a value bound as a statement parameter
\* (convert_dbvalue_to_sql) and read back from a result row (sql_query).
\* A DbValue and a stored value are records with the same fields for every
\* tag: s holds the characters of a text, i a number, bytes a blob.

MaxInt    == 3
MaxStrLen == 3
SeqsUpTo(S, n) == UNION { [1..k -> S] : k \in 0..n }

\* A DbValue: its variant and what the variant holds.  Bool holds 0 or 1
\* and DateTime the second of the day 2024-01-01 (UTC) in i.
DbValue(tag, s, i, bytes) == [tag |-> tag, s |-> s, i |-> i, bytes |-> bytes]
DbNull == DbValue("Null", <<>>, 0, <<>>)

DbValues ==
    {DbNull} \cup { DbValue("Bool", <<>>, b, <<>>) : b \in {0, 1} }
    \cup { DbValue("Int", <<>>, n, <<>>) : n \in (0 - MaxInt)..MaxInt }
    \cup { DbValue("Double", <<>>, h, <<>>) : h \in (0 - MaxInt)..MaxInt }
    \cup { DbValue("String", t, 0, <<>>) : t \in SeqsUpTo({"a", "b"}, MaxStrLen) }
    \cup { DbValue("DateTime", <<>>, t, <<>>) : t \in {0, 59, 60, 3599, 3600, 86399} }
    \cup { DbValue("Blob", <<>>, 0, b) : b \in SeqsUpTo({0, 255}, MaxStrLen - 1) }

\* A rusqlite Value (written) or ValueRef (read): Null, Integer, Real, Text
\* or Blob.
Value(tag, s, i, bytes) == [tag |-> tag, s |-> s, i |-> i, bytes |-> bytes]

\* DateTime::to_rfc3339(): date, 'T', time with two digits a field, offset.
Pad2(n) == IF n < 10 THEN <<"0">> \o NatToStr(n) ELSE NatToStr(n)
to_rfc3339(t) ==
    <<"2", "0", "2", "4", "-", "0", "1", "-", "0", "1", "T">>
    \o Pad2(t \div 3600) \o <<":">> \o Pad2((t % 3600) \div 60)
    \o <<":">> \o Pad2(t % 60) \o <<"+", "0", "0", ":", "0", "0">>

\* convert_dbvalue_to_sql: [ok, value].
convert_dbvalue_to_sql_NullForOther(value) ==
    CASE value.tag = "String"   -> [ok |-> TRUE, value |-> Value("Text", value.s, 0, <<>>)]
      [] value.tag = "Int"      -> [ok |-> TRUE, value |-> Value("Integer", <<>>, value.i, <<>>)]
      [] value.tag = "DateTime" -> [ok |-> TRUE, value |-> Value("Text", to_rfc3339(value.i), 0, <<>>)]
      [] value.tag = "Blob"     -> [ok |-> TRUE, value |-> Value("Blob", <<>>, 0, value.bytes)]
      [] OTHER                  -> [ok |-> TRUE, value |-> Value("Null", <<>>, 0, <<>>)]
convert_dbvalue_to_sql(value) ==
    CASE value.tag = "String"   -> [ok |-> TRUE, value |-> Value("Text", value.s, 0, <<>>)]
      [] value.tag = "Int"      -> [ok |-> TRUE, value |-> Value("Integer", <<>>, value.i, <<>>)]
      [] value.tag = "DateTime" -> [ok |-> TRUE, value |-> Value("Text", to_rfc3339(value.i), 0, <<>>)]
      [] value.tag = "Null"     -> [ok |-> TRUE, value |-> Value("Null", <<>>, 0, <<>>)]
      [] value.tag = "Blob"     -> [ok |-> TRUE, value |-> Value("Blob", <<>>, 0, value.bytes)]
      [] OTHER                  -> [ok |-> FALSE, value |-> Value("Null", <<>>, 0, <<>>)]

\* The match on ValueRef in the row closure of sql_query.
from_value_ref(value) ==
    CASE value.tag = "Null"    -> DbNull
      [] value.tag = "Integer" -> DbValue("Int", <<>>, value.i, <<>>)
      [] value.tag = "Real"    -> DbValue("Double", <<>>, value.i, <<>>)
      [] value.tag = "Text"    -> DbValue("String", value.s, 0, <<>>)
      [] value.tag = "Blob"    -> DbValue("Blob", <<>>, 0, value.bytes)

NoRet == [stage |-> "none", value |-> Value("Null", <<>>, 0, <<>>), out |-> DbNull]

\* The state of the server plays no part in a conversion.
Idle ==
    /\ events = <<>>
    /\ seq = 0
    /\ open_events = <<>>
    /\ children = <<>>
    /\ eventdb = [i \in EventIds |-> [dir |-> FALSE, inited |-> FALSE]]
    /\ lock = [w |-> NoProc, r |-> {}]
    /\ pc = [p \in Procs |-> "idle"]
    /\ rq = [p \in Procs |-> NoRq]
    /\ loc = [p \in Procs |-> NoLoc]
    /\ res = [p \in Procs |-> NoRes]
    /\ created = <<>>
    /\ concurrent = {}
    /\ nreq = 0
    /\ sig = [p \in Procs |-> NoSignal]
    /\ val = [p \in Procs |-> NoVal]
    /\ remote = [p \in Procs |-> <<>>]
    /\ recs = <<>>
    /\ sqllog = [p \in Procs |-> NoLog]

InitConv == Idle /\ arg \in DbValues /\ ret = NoRet

\* sql_exec binds the parameter: process_record_params fails on the first
\* value that cannot be converted, before the statement is prepared.
BindParam ==
    /\ ret.stage = "none"
    /\ LET c == convert_dbvalue_to_sql(arg) IN
       ret' = IF c.ok THEN [ret EXCEPT !.stage = "stored", !.value = c.value]
              ELSE [ret EXCEPT !.stage = "failed"]
    /\ UNCHANGED <<events, seq, open_events, children, eventdb, lock, pc, rq,
                   loc, res, created, concurrent, nreq, sig, val, remote, recs,
                   sqllog, arg>>

\* sql_query reads the stored value back from the row.
QueryRow ==
    /\ ret.stage = "stored"
    /\ ret' = [ret EXCEPT !.stage = "read", !.out = from_value_ref(ret.value)]
    /\ UNCHANGED <<events, seq, open_events, children, eventdb, lock, pc, rq,
                   loc, res, created, concurrent, nreq, sig, val, remote, recs,
                   sqllog, arg>>

NextConv == BindParam \/ QueryRow
SpecConv == InitConv /\ [][NextConv]_vars

\* C25: a value of any scalar tag that was written as a parameter is read
\* back equal to the original, with the same tag: the write never fails
\* and the value read is the value written.
C25_ScalarRoundTrip ==
    /\ ret.stage # "failed"
    /\ ret.stage = "read" => ret.out = arg

-----------------------------------------------------------------------------
\* The durations of the configuration (config.rs).  A string is the
\* sequence of its characters; a Duration of whole seconds is the number of
\* its seconds.

MaxDurLen == 3
\* The character U+00E9 (e with acute accent), two bytes in UTF-8.
EAcute    == "e-acute"
DurStrings ==
    SeqsUpTo({"-", "+", "0", "1", "7", "s", "m", "h", "d", "x", EAcute}, MaxDurLen)

\* The length of a character in the bytes of UTF-8.
len_utf8(c) == IF c = EAcute THEN 2 ELSE 1

\* The seconds of one unit: Duration::seconds, minutes, hours, days.
UnitSeconds(u) ==
    CASE u = "s" -> 1 [] u = "m" -> 60 [] u = "h" -> 3600 [] u = "d" -> 86400

\* Result<Duration, String>, or the panic of str::split_at when the index
\* is not on a character boundary.
Parsed(kind, secs, msg, detail) ==
    [kind |-> kind, secs |-> secs, msg |-> msg, detail |-> detail]

parse_duration(input) ==
    IF input = <<>> THEN Parsed("Err", 0, "Duration string cannot be empty", <<>>)
    ELSE IF len_utf8(input[Len(input)]) > 1
    THEN Parsed("Panic", 0, "byte index is not a char boundary", <<>>)
    ELSE LET num   == SubSeq(input, 1, Len(input) - 1)
             unit  == input[Len(input)]
             value == parse_i64(num)
         IN  IF ~value.ok THEN Parsed("Err", 0, "Invalid number", num)
             ELSE IF unit \in {"s", "m", "h", "d"}
                  THEN Parsed("Ok", value.v * UnitSeconds(unit), "", <<>>)
                  ELSE Parsed("Err", 0, "Invalid duration unit", <<unit>>)

NoParse == [stage |-> "none", text |-> <<>>, out |-> Parsed("Err", 0, "", <<>>)]

InitParse == Idle /\ arg \in DurStrings /\ ret = NoParse

ParseDuration ==
    /\ ret.stage = "none"
    /\ ret' = [ret EXCEPT !.stage = "parsed", !.text = arg, !.out = parse_duration(arg)]
    /\ UNCHANGED <<events, seq, open_events, children, eventdb, lock, pc, rq,
                   loc, res, created, concurrent, nreq, sig, val, remote, recs,
                   sqllog, arg>>

SpecParse == InitParse /\ [][ParseDuration]_vars

\* A decimal integer: one digit or more after an optional sign.
IsDecimalInteger(t) ==
    \/ AllDigits(t)
    \/ Len(t) > 1 /\ t[1] \in {"-", "+"} /\ AllDigits(SubSeq(t, 2, Len(t)))
IntegerOf(t) ==
    IF t[1] = "-" THEN 0 - DigitsVal(SubSeq(t, 2, Len(t)))
    ELSE IF t[1] = "+" THEN DigitsVal(SubSeq(t, 2, Len(t))) ELSE DigitsVal(t)

\* C29: parse_duration returns Ok exactly for a decimal integer n followed
\* by one of s, m, h, d, with the value n seconds, minutes, hours or days;
\* the empty string gives 'Duration string cannot be empty', a prefix that
\* is no integer gives 'Invalid number', and an integer prefix with any
\* other last character gives 'Invalid duration unit'.
C29_ParseDuration ==
    ret.stage = "parsed" =>
        IF arg = <<>>
        THEN ret.out.kind = "Err" /\ ret.out.msg = "Duration string cannot be empty"
        ELSE LET prefix == SubSeq(arg, 1, Len(arg) - 1)
                 last   == arg[Len(arg)]
             IN  IF ~IsDecimalInteger(prefix)
                 THEN ret.out.kind = "Err" /\ ret.out.msg = "Invalid number"
                 ELSE IF last \in {"s", "m", "h", "d"}
                 THEN /\ ret.out.kind = "Ok"
                      /\ ret.out.secs = IntegerOf(prefix) * UnitSeconds(last)
                 ELSE ret.out.kind = "Err" /\ ret.out.msg = "Invalid duration unit"

-----------------------------------------------------------------------------
\* chrono_duration_as_string: a duration is written with the largest unit
\* that divides it and read with parse_duration.

\* The / and % of i64 truncate towards zero.
RustDiv(a, b) == IF a >= 0 THEN a \div b ELSE 0 - ((0 - a) \div b)
RustRem(a, b) == IF a >= 0 THEN a % b ELSE 0 - ((0 - a) % b)

Durations ==
    { dd * 86400 + hh * 3600 + mm * 60 + ss :
        dd \in (0 - MaxInt)..MaxInt, hh \in (0 - MaxInt)..MaxInt,
        mm \in (0 - MaxInt)..MaxInt, ss \in (0 - MaxInt)..MaxInt }

serialize_DaysAsHours(total_seconds) ==
    IF RustRem(total_seconds, 24 * 3600) = 0
    THEN format(RustDiv(total_seconds, 3600)) \o <<"d">>
    ELSE IF RustRem(total_seconds, 3600) = 0
    THEN format(RustDiv(total_seconds, 3600)) \o <<"h">>
    ELSE IF RustRem(total_seconds, 60) = 0
    THEN format(RustDiv(total_seconds, 60)) \o <<"m">>
    ELSE format(total_seconds) \o <<"s">>

serialize(total_seconds) ==
    IF RustRem(total_seconds, 24 * 3600) = 0
    THEN format(RustDiv(total_seconds, 24 * 3600)) \o <<"d">>
    ELSE IF RustRem(total_seconds, 3600) = 0
    THEN format(RustDiv(total_seconds, 3600)) \o <<"h">>
    ELSE IF RustRem(total_seconds, 60) = 0
    THEN format(RustDiv(total_seconds, 60)) \o <<"m">>
    ELSE format(total_seconds) \o <<"s">>

deserialize(t) == parse_duration(t)

InitDuration == Idle /\ arg \in Durations /\ ret = NoParse

Serialize ==
    /\ ret.stage = "none"
    /\ arg \in Durations
    /\ ret' = [ret EXCEPT !.stage = "serialized", !.text = serialize(arg)]
    /\ UNCHANGED <<events, seq, open_events, children, eventdb, lock, pc, rq,
                   loc, res, created, concurrent, nreq, sig, val, remote, recs,
                   sqllog, arg>>

Deserialize ==
    /\ ret.stage = "serialized"
    /\ ret' = [ret EXCEPT !.stage = "deserialized", !.out = deserialize(ret.text)]
    /\ UNCHANGED <<events, seq, open_events, children, eventdb, lock, pc, rq,
                   loc, res, created, concurrent, nreq, sig, val, remote, recs,
                   sqllog, arg>>

NextDuration == Serialize \/ Deserialize
SpecDuration == InitDuration /\ [][NextDuration]_vars

\* C30: the string written for a duration of whole seconds ends with the
\* largest unit among d, h, m, s that divides the duration, and reading
\* the string gives the duration back, for zero and negative durations too.
C30_DurationRoundTrip ==
    /\ ret.stage \in {"serialized", "deserialized"} =>
          LET u == ret.text[Len(ret.text)] IN
          /\ u \in {"s", "m", "h", "d"}
          /\ arg % UnitSeconds(u) = 0
          /\ \A v \in {"s", "m", "h", "d"} :
                arg % UnitSeconds(v) = 0 => UnitSeconds(v) <= UnitSeconds(u)
    /\ ret.stage = "deserialized" => ret.out = Parsed("Ok", arg, "", <<>>)

C30_Witness ==
    /\ ret.stage = "deserialized"
    /\ arg < 0 /\ arg % 3600 = 0 /\ arg % 86400 # 0
    /\ ret.text = <<"-", "2", "5", "h">>
    /\ ret.out.kind = "Ok" /\ ret.out.secs = arg

-----------------------------------------------------------------------------
\* State::open_event and State::close_event run between the acquisition of
\* the writer guard and its drop: the positions of a task inside them.
InOpenOrClose == {"open_read", "open_migrate", "close_status"}

\* C31: open and close calls are serialized by the writer guard: at most
\* one task is inside State::open_event or State::close_event, that task
\* holds the writer guard and no reader guard is out, and the open-events
\* map changes only in a step of the task that holds the writer guard or
\* that takes the free guard in that step.
C31_Serialized ==
    [][ /\ \A p, q \in Procs :
            (pc'[p] \in InOpenOrClose /\ pc'[q] \in InOpenOrClose) => p = q
        /\ \A p \in Procs :
            pc'[p] \in InOpenOrClose => lock'.w = p /\ lock'.r = {}
        /\ open_events' # open_events =>
              \E p \in Procs :
                /\ pc'[p] # pc[p]
                /\ \A q \in Procs \ {p} : pc'[q] = pc[q]
                /\ \/ lock.w = p /\ pc[p] \in InOpenOrClose
                   \/ WriteFree /\ pc[p] \in {"open_lock", "close_lock"} ]_vars

C31_Witness ==
    \E p, q \in Procs :
        /\ pc[p] = "close_status" /\ lock.w = p
        /\ pc[q] = "open_lock" /\ loc[q].event_id = loc[p].event_id
        /\ loc[p].event_id \notin DOMAIN open_events

\* C32: an entry of the open-events map owns a child exactly when its event
\* is local, no two entries own the same child, and the children started
\* and not killed are as many as the local entries of the map.  (While no
\* child has exited, the children not killed are those running.)
C32_ChildIffLocal ==
    /\ \A id \in DOMAIN open_events :
          (open_events[id].qxsql_process # 0) <=> open_events[id].data.is_local
    /\ (\A c \in 1..Len(children) : children[c].st # "exited")
          => Cardinality({c \in 1..Len(children) : children[c].st = "running"})
               = Cardinality({id \in DOMAIN open_events : open_events[id].data.is_local})

\* C33: when close(id) returns, with success or with an error, id is not
\* in the open-events map; in particular when the kill of the child or the
\* wait for its exit failed.
C33_CloseRemovesOnFailure ==
    [][ \A p \in Procs :
          ( /\ rq[p].method = "close"
            /\ pc[p] \in {"close_lock", "close_status"} /\ pc'[p] = "done" )
          => /\ loc[p].event_id \notin DOMAIN open_events'
             /\ res'[p].msg \in {"kill", "status"} =>
                   /\ res'[p].st = "Err"
                   /\ sig'[p] = NoSignal
                   /\ (pc[p] = "close_lock" => loc[p].event_id \in DOMAIN open_events) ]_vars

C33_Witness ==
    \E p \in Procs :
        /\ pc[p] = "done" /\ rq[p].method = "close" /\ res[p] = Err("status")
        /\ loc[p].child # 0 /\ children[loc[p].child].st = "killed"
        /\ loc[p].event_id \notin DOMAIN open_events

\* C34: no event is deleted while open: every id of the open-events map
\* has a row in the events table.
C34_NoDeletedWhileOpen == DOMAIN open_events \subseteq DOMAIN events

\* C35: a parameter whose tag the conversion does not support makes the
\* call fail before its statement is executed: nothing is stored or read
\* for it, no value stands in for it, and the call ends as failed; a call
\* fails this way for no other parameter.
C35_UnsupportedTagFails ==
    /\ arg.tag \notin {"String", "Int", "DateTime", "Null", "Blob"}
          => /\ ret.stage \in {"none", "failed"}
             /\ ret.value = NoRet.value /\ ret.out = NoRet.out
    /\ ret.stage = "failed"
          => arg.tag \notin {"String", "Int", "DateTime", "Null", "Blob"}

C35_Witness ==
    /\ arg.tag = "Double" /\ arg.i # 0
    /\ ret.stage = "failed"


\* ------------------------------------------------ failures inside an open

\* The events table after the sql node wrote rows of it: a row written by
\* a create or update without the api_token field holds NULL there; row 1
\* may hold a token as createEvent stores it (the column is UNIQUE, and
\* NULLs do not collide).
SqlWrittenRow(null) ==
    [api_token |-> IF null THEN NullToken ELSE "bacedifoku",
     data |-> EventData("alice")]
InitRows ==
    /\ \E first \in BOOLEAN :
         events = [i \in EventIds |-> SqlWrittenRow(i # 1 \/ first)]
    /\ seq = MaxEvents
    /\ open_events = <<>>
    /\ children = <<>>
    /\ eventdb = [i \in EventIds |-> [dir |-> FALSE, inited |-> FALSE]]
    /\ lock = [w |-> NoProc, r |-> {}]
    /\ pc = [p \in Procs |-> "idle"]
    /\ rq = [p \in Procs |-> NoRq]
    /\ loc = [p \in Procs |-> NoLoc]
    /\ res = [p \in Procs |-> NoRes]
    /\ created = <<>>
    /\ concurrent = {}
    /\ nreq = 0
    /\ sig = [p \in Procs |-> NoSignal]
    /\ val = [p \in Procs |-> NoVal]
    /\ remote = [p \in Procs |-> <<>>]
    /\ recs = <<>>
    /\ sqllog = [p \in Procs |-> NoLog]
    /\ arg = NoArg
    /\ ret = <<>>

NextOpen ==
    \E p \in Procs :
        \/ RecvOpen(p)
        \/ OpenAcquire(p)
        \/ OpenRead(p)
        \/ OpenMigrate(p)
        \/ Reply(p)

SpecOpen == InitRows /\ [][NextOpen]_vars

\* C36: every failure inside an open (row missing, data that does not
\* deserialize, api_token NULL or not a string, migration failure, spawn
\* failure) reaches the caller as a method-call exception: an openEvent
\* request that ended either succeeded or carries an error result, and
\* none ended by a panic of its handler.
C36_OpenFailuresAreErrors ==
    \A p \in Procs :
        (pc[p] = "done" /\ rq[p].method = "openEvent")
            => res[p].st \in {"Ok", "Err"}

\* ------------------------------------------------------- orderly shutdown

\* The application node receives quit (appnode.rs, METH_QUIT).
RecvQuit(p) ==
    /\ pc[p] = "idle"
    /\ rq' = [rq EXCEPT ![p] = [NoRq EXCEPT !.method = "quit"]]
    /\ pc' = [pc EXCEPT ![p] = "quit_lock"]
    /\ UNCHANGED <<events, seq, open_events, children, eventdb, lock, loc, res, created>>
    /\ UNCHANGED concurrent
    /\ nreq < MaxRequests /\ nreq' = nreq + 1
    /\ UNCHANGED <<sig, val>>
    /\ UNCHANGED remote
    /\ UNCHANGED <<recs, sqllog, arg, ret>>

\* self.app_state.write().await: the guard lives until quit_app returned.
QuitAcquire(p) ==
    /\ pc[p] = "quit_lock"
    /\ WriteFree
    /\ lock' = [lock EXCEPT !.w = p]
    /\ pc' = [pc EXCEPT ![p] = "quit_close"]
    /\ UNCHANGED <<events, seq, open_events, children, eventdb, rq, loc, res, created>>
    /\ UNCHANGED concurrent
    /\ UNCHANGED nreq
    /\ UNCHANGED <<sig, val>>
    /\ UNCHANGED remote
    /\ UNCHANGED <<recs, sqllog, arg, ret>>

\* quit_app iterates the map and closes every entry with close_event: the
\* entry is removed, the child it owned is killed and awaited. A close that
\* failed is remembered and the iteration goes on; with the map empty the
\* guard is dropped and the result returned.
QuitClose(p) ==
    /\ pc[p] = "quit_close"
    /\ IF DOMAIN open_events = {}
       THEN /\ res' = [res EXCEPT ![p] = IF res[p].st = "none" THEN Ok(0, "") ELSE res[p]]
            /\ lock' = [lock EXCEPT !.w = NoProc]
            /\ pc' = [pc EXCEPT ![p] = "done"]
            /\ UNCHANGED <<open_events, children, loc>>
       ELSE LET id == MinOf(DOMAIN open_events)
                c  == open_events[id].qxsql_process IN
            IF c = 0
            THEN /\ open_events' = Del(open_events, id)
                 /\ UNCHANGED <<children, lock, pc, loc, res>>
            ELSE \E killed \in BOOLEAN :
                 /\ open_events' = RemovedBeforeKill(open_events, id, killed)
                 /\ children' = Kill(children, c, killed)
                 /\ UNCHANGED lock
                 /\ IF killed
                    THEN /\ loc' = [loc EXCEPT ![p].child = c]
                         /\ pc' = [pc EXCEPT ![p] = "quit_status"]
                         /\ UNCHANGED res
                    ELSE /\ res' = [res EXCEPT ![p] = Err("kill")]
                         /\ UNCHANGED <<pc, loc>>
    /\ UNCHANGED <<events, seq, eventdb, rq, created>>
    /\ UNCHANGED concurrent
    /\ UNCHANGED nreq
    /\ UNCHANGED sig
    /\ val' = [val EXCEPT ![p] = UnitReply(res'[p])]
    /\ UNCHANGED remote
    /\ UNCHANGED <<recs, sqllog, arg, ret>>

\* child.status().await? of the close in progress resolves or fails.
QuitStatus(p) ==
    /\ pc[p] = "quit_status"
    /\ \/ /\ children[loc[p].child].st = "exited"
          /\ UNCHANGED res
       \/ res' = [res EXCEPT ![p] = Err("status")]
    /\ pc' = [pc EXCEPT ![p] = "quit_close"]
    /\ UNCHANGED <<events, seq, open_events, children, eventdb, lock, rq, loc, created>>
    /\ UNCHANGED concurrent
    /\ UNCHANGED nreq
    /\ UNCHANGED <<sig, val>>
    /\ UNCHANGED remote
    /\ UNCHANGED <<recs, sqllog, arg, ret>>

NextQuit ==
    \/ \E c \in 1..Len(children) : ChildExit(c)
    \/ \E p \in Procs :
        \/ RecvCreate(p)
        \/ CreateAcquire(p)
        \/ CreateInsert(p)
        \/ CreateMount(p)
        \/ RecvOpen(p)
        \/ OpenAcquire(p)
        \/ OpenRead(p)
        \/ OpenMigrate(p)
        \/ RecvQuit(p)
        \/ QuitAcquire(p)
        \/ QuitClose(p)
        \/ QuitStatus(p)
        \/ Reply(p)

SpecQuit == Init /\ [][NextQuit]_vars

\* C37: when the quit method completes, the open-events map is empty and
\* no child process started by an open is still running.
C37_QuitClosesAll ==
    [][ \A p \in Procs :
          (pc[p] = "quit_close" /\ pc'[p] = "done")
            => /\ DOMAIN open_events' = {}
               /\ \A c \in 1..Len(children') : children'[c].st # "running" ]_vars

\* C38: createEvent does the mount registration without the shared-state
\* lock: the writer guard taken for the insert is released before the broker
\* call is issued, so a handler whose call is pending (or that returned)
\* holds neither the writer guard nor a reader guard.
C38_MountWithoutLock ==
    \A p \in Procs :
        (rq[p].method = "createEvent" /\ pc[p] \in {"create_mount", "done"})
            => /\ lock.w # p
               /\ p \notin lock.r

\* An open of the event just created succeeded and is answered while the
\* registration call of its createEvent is still pending.
C38_Witness ==
    \E p \in Procs, q \in Procs :
        /\ p # q
        /\ pc[p] = "create_mount"
        /\ pc[q] = "done" /\ rq[q].method = "openEvent"
        /\ res[q].st = "Ok"
        /\ loc[q].event_id = loc[p].event_id
        /\ loc[p].event_id \in DOMAIN open_events
        /\ lock.w = NoProc

\* C40: the lsmod notification is sent only after the state change has been
\* applied (true after a successful open, with the event in the map; false
\* after a successful close, with the event out of it), once per request and
\* exactly when the request succeeds; an open whose send failed returns the
\* error and is not undone: the event is in the map and its child has not
\* been killed (it is running when this open spawned it).
C40_LsmodAfterChange ==
    [][ \A p \in Procs :
          LET id     == loc'[p].event_id
              isOpen == rq'[p].method \in {"openEvent", "openEventApi"}
              isClose == rq'[p].method = "close"
              ends   == pc[p] # "done" /\ pc'[p] = "done" IN
          /\ (sig'[p] # NoSignal /\ sig'[p] # sig[p])
                => /\ sig[p] = NoSignal
                   /\ ends /\ res'[p].st = "Ok"
                   /\ isOpen \/ isClose
                   /\ isOpen => sig'[p] = Lsmod(TRUE) /\ id \in DOMAIN open_events'
                   /\ isClose => sig'[p] = Lsmod(FALSE) /\ id \notin DOMAIN open_events'
          /\ (ends /\ (isOpen \/ isClose) /\ res'[p].st = "Ok") => sig'[p] # NoSignal
          /\ (ends /\ isOpen /\ res'[p] = Err("Failed to send message"))
                => /\ sig'[p] = NoSignal
                   /\ id \in DOMAIN open_events'
                   /\ open_events'[id].data.is_local
                        => LET c == open_events'[id].qxsql_process IN
                           /\ c # 0
                           /\ children'[c].st # "killed"
                           /\ pc[p] = "open_migrate" => children'[c].st = "running" ]_vars

\* An openEvent spawned the child and inserted the entry, the send of
\* lsmod(true) failed: the request carries the error, no signal is out, the
\* event is open and its child running.
C40_Witness ==
    \E p \in Procs :
        /\ pc[p] = "done" /\ rq[p].method = "openEvent"
        /\ res[p] = Err("Failed to send message")
        /\ ~loc[p].was_open
        /\ sig[p] = NoSignal
        /\ loc[p].event_id \in DOMAIN open_events
        /\ open_events[loc[p].event_id].qxsql_process # 0
        /\ children[open_events[loc[p].event_id].qxsql_process].st = "running"

\* --------------------------------------------------------- lock discipline

\* The handlers that take a guard of the lock on events the table holds:
\* openEventApi (reader guard, then writer guard), info and ls (reader
\* guard), close (writer guard, held across the wait for the child).
NextLock ==
    \/ \E c \in 1..Len(children) : ChildExit(c)
    \/ \E p \in Procs :
        \/ RecvOpenApi(p)
        \/ ApiAcquire(p)
        \/ ApiLookup(p)
        \/ OpenAcquire(p)
        \/ OpenRead(p)
        \/ OpenMigrate(p)
        \/ RecvInfo(p)
        \/ InfoAcquire(p)
        \/ RecvLs(p)
        \/ LsAcquire(p)
        \/ RecvClose(p)
        \/ CloseAcquire(p)
        \/ CloseStatus(p)
        \/ Reply(p)

\* The scheduling of the executor and of smol::lock::RwLock: a handler that
\* can take a step which does not wait for the lock takes it (storage,
\* spawn and the wait for the child answer), a child that was started
\* exits, and a handler that waits for the lock while the lock becomes free
\* again and again acquires it.
SpecLock ==
    /\ InitRows /\ [][NextLock]_vars
    /\ WF_vars(\E c \in 1..Len(children) : ChildExit(c))
    /\ \A p \in Procs :
        /\ WF_vars(ApiLookup(p) \/ OpenRead(p) \/ OpenMigrate(p) \/ CloseStatus(p))
        /\ SF_vars(ApiAcquire(p) \/ OpenAcquire(p) \/ InfoAcquire(p)
                      \/ LsAcquire(p) \/ CloseAcquire(p))

\* The positions at which a handler waits for a guard of the lock.
LockWaits == {"api_lock", "open_lock", "info_lock", "ls_lock", "close_lock"}

\* C39: the lock discipline is deadlock-free: a handler that waits for a
\* guard holds none (the api-token open dropped its reader guard before
\* open_event asks for the writer guard), a handler that has not started or
\* has returned, with Ok or with an error, holds none, and every handler
\* that waits for the lock eventually gets it.
C39_DeadlockFree ==
    /\ [](\A p \in Procs :
            pc[p] \in LockWaits \cup {"idle", "done"}
                => lock.w # p /\ p \notin lock.r)
    /\ \A p \in Procs : (pc[p] \in LockWaits) ~> (pc[p] \notin LockWaits)

\* An api-token open waits for the writer guard while the other handler
\* holds it in a close that awaits its child.
C39_Witness ==
    \E p \in Procs, q \in Procs :
        /\ pc[p] = "open_lock" /\ rq[p].method = "openEventApi"
        /\ pc[q] = "close_status" /\ lock.w = q
        /\ p \notin lock.r
=============================================================================
